---- MODULE Spec2Model ----
(***************************************************************************)
(* A state-machine model of the filter/action evaluation core of the       *)
(* GCP tooling of Cloud Custodian:                                         *)
(*   - the action framework (Action.filter_resources, Action._run_api,     *)
(*     Action.process, ActionRegistry.factory), exercised by               *)
(*     tests/test_actions.py;                                              *)
(*   - the Stackdriver metric filter (c7n_gcp/filters/metrics_filter.py);  *)
(*   - the Stackdriver log filter (c7n_gcp/filters/log_filter.py).         *)
(* Each component has its own specification; the variable "component"      *)
(* says which one a behaviour exercises.                                   *)
(***************************************************************************)
EXTENDS Integers, Sequences, FiniteSets, TLC

VARIABLES
    component,   \* which component this behaviour exercises
    registry,    \* ActionRegistry: the set of registered type names
    actionOut,   \* the last action-framework call: its arguments and outcome
    actionLog,   \* the lines that call logged to 'custodian.actions'
    mFilters,    \* the data (policy spec) of the metric filter instances
    mRes,        \* the resource records (dicts), by object identity
    mProc,       \* the running MetricsFilter.process call and its pool tasks
    mOut,        \* the outcome of the MetricsFilter.process call that ended last,
                 \* until the next call begins
    mRuns,       \* how many MetricsFilter.process calls have begun
    mPrev,       \* what the call before the running (or last) call returned,
                 \* when that call had the same filter instance and input
    mHist,       \* per record and cache key: whether an evaluation has
                 \* finished, the evaluations begun before that, and the
                 \* remote calls issued
    kPair,       \* two filter instances of one type, as [type, data]
    kKeys,       \* the annotation cache keys computed for them
    lFilter,     \* the data (policy spec) of the stackdriver-logs filter
    lCount,      \* how many resources its process call was handed
    lPc,         \* where StackdriverLogFilter.process stands
    lChunk,      \* the chunk being processed, counted from 1
    lAttempt,    \* the attempt number of the retried call on that chunk
    lResults,    \* results: the chunks whose resources were appended
    lAnn,        \* the resource records a log annotation was written to,
                 \* by resource id
    lLast,       \* how the last chunk that ended went
    lOut,        \* the outcome of the process call
    lCalls,      \* per chunk begun: the remote calls made for it, in order
    lbNow,       \* the clock (UTC): day of December 2019, hour, minute
    lbAction,    \* the label action instance: its type, data and attributes
    lbRes,       \* the resource records the label actions work on
    lbOut,       \* the last call on the label action and its outcome
    hFile,       \* the contents of config.json
    hData,       \* handler.policy_data: None or the loaded dict
    hConfig,     \* handler.policy_config: None or the execution options
    hRun,        \* where the running invocation of run stands, and the
                 \* policy calls it has made
    hOut,        \* the outcome of the invocation of run that ended last
    hCount,      \* how many invocations began, how many times config.json
                 \* was read and how many initialisations completed
    eEnv,        \* os.environ: the variables that are set, with their values
    eCtx,        \* the environ context manager in use: where it stands, its
                 \* keyword arguments, os.environ at entry (current_env),
                 \* the block's steps so far and how the with statement ended
    eCache       \* the session cache: 'used' or 'reset'

actionVars == <<registry, actionOut, actionLog>>

metricVars == <<mFilters, mRes, mProc, mOut, mRuns, mPrev, mHist>>

keyVars == <<kPair, kKeys>>

labelVars == <<lbNow, lbAction, lbRes, lbOut>>

handlerVars == <<hFile, hData, hConfig, hRun, hOut, hCount>>

envVars == <<eEnv, eCtx, eCache>>

logVars == <<lFilter, lCount, lPc, lChunk, lAttempt, lResults, lAnn, lLast, lOut,
             lCalls>>

(***************************************************************************)
(* Bounds of the model.                                                    *)
(***************************************************************************)
\* The longest resource list handed to one call.
MaxRes == 3

\* The most MetricsFilter.process calls of one behaviour.
MaxRuns == 2

(***************************************************************************)
(* Python values.  None and optional values are sequences of length <= 1;  *)
(* a dict read with .get is a function whose DOMAIN holds the keys given.  *)
(***************************************************************************)
None == << >>

Some(v) == <<v>>

\* dict.get(key, default)
Get(d, k, default) == IF k \in DOMAIN d THEN d[k] ELSE default

\* The empty dict.
EmptyDict == [k \in {} |-> None]

\* The sequences over S of length lo..hi.
SeqsUpTo(S, lo, hi) == UNION {[1..n -> S] : n \in lo..hi}

\* sep.join(parts) for a sequence of strings.
RECURSIVE Join(_, _)
Join(parts, sep) ==
    IF parts = << >> THEN ""
    ELSE IF Len(parts) = 1 THEN parts[1]
    ELSE parts[1] \o sep \o Join(Tail(parts), sep)

(***************************************************************************)
(* Action framework.  c7n.actions is not among the sources; it is          *)
(* modelled from sections 4.2, 4.4, 4.5 and 6 of the specification and     *)
(* from the calls tests/test_actions.py makes.                             *)
(***************************************************************************)

\* Nested resource data: a string, a mapping, or the absent-value sentinel.
StrV(s) == [t |-> "str", s |-> s]

MapV(m) == [t |-> "map", m |-> m]

Absent == [t |-> "absent"]

\* The resources of test_filter_resources, one without 'state' and one
\* whose 'state' has no 'status'.
ActionResources ==
    { MapV([app |-> StrV("X"), state |-> MapV([status |-> StrV("running")])]),
      MapV([app |-> StrV("Y"), state |-> MapV([status |-> StrV("stopped")])]),
      MapV([app |-> StrV("Z"), state |-> MapV([status |-> StrV("running")])]),
      MapV([app |-> StrV("W")]),
      MapV([app |-> StrV("V"), state |-> MapV([reason |-> StrV("running")])]) }

\* Key paths, as their dotted segments.
ActionKeys == { <<"state", "status">>, <<"app">>, <<"state", "reason">> }

\* Tuples of allowed values.
ActionAllowed == { <<"running">>, <<"running", "stopped">>, <<"X">>, << >> }

ActionTypes == { "set-x", "stop" }

\* Path resolution of section 4.1: each segment addresses a nested map; a
\* missing segment resolves to the absent-value sentinel.
RECURSIVE ResolveKey(_, _)
ResolveKey(value, path) ==
    IF path = << >> THEN value
    ELSE IF value.t = "map" /\ Head(path) \in DOMAIN value.m
         THEN ResolveKey(value.m[Head(path)], Tail(path))
         ELSE Absent

\* value in allowed_values
InAllowed(value, allowed) ==
    /\ value.t = "str"
    /\ \E i \in 1..Len(allowed) : allowed[i] = value.s

\* A variant of KeepAllowed that collects the kept resources back to front.
RECURSIVE KeepAllowedReversed(_, _, _)
KeepAllowedReversed(resources, key, allowed) ==
    IF resources = << >> THEN << >>
    ELSE LET rest == KeepAllowedReversed(Tail(resources), key, allowed)
         IN IF InAllowed(ResolveKey(Head(resources), key), allowed)
            THEN rest \o <<Head(resources)>>
            ELSE rest

\* The resources kept, in one pass over the input.
RECURSIVE KeepAllowed(_, _, _)
KeepAllowed(resources, key, allowed) ==
    IF resources = << >> THEN << >>
    ELSE LET rest == KeepAllowed(Tail(resources), key, allowed)
         IN IF InAllowed(ResolveKey(Head(resources), key), allowed)
            THEN <<Head(resources)>> \o rest
            ELSE rest

\* The diagnostic line of sections 4.2 and 6.
FilteredLogLine(type, dropped, total, key, allowed) ==
    type \o " implicitly filtered " \o ToString(dropped) \o " of "
         \o ToString(total) \o " resources key:" \o Join(key, ".")
         \o " on " \o Join(allowed, ", ")

\* A variant of FilterResourcesLog that reports the kept count as dropped.
FilterResourcesLogKept(type, resources, results, key, allowed) ==
    IF Len(resources) # Len(results)
    THEN << FilteredLogLine(type, Len(results), Len(resources), key, allowed) >>
    ELSE << >>

\* The lines filter_resources logs: one when resources were dropped.
FilterResourcesLog(type, resources, results, key, allowed) ==
    IF Len(resources) # Len(results)
    THEN << FilteredLogLine(type, Len(resources) - Len(results),
                            Len(resources), key, allowed) >>
    ELSE << >>

\* No call is in progress and none has left an outcome to read.
ActionIdle == [op |-> "none"]

\* Action.filter_resources(resources, key, allowed_values)
FilterResources ==
    \E type \in ActionTypes, resources \in SeqsUpTo(ActionResources, 0, MaxRes),
       key \in ActionKeys, allowed \in ActionAllowed :
        LET results == KeepAllowed(resources, key, allowed)
        IN /\ actionOut = ActionIdle
           /\ actionOut' = [op |-> "filter_resources", type |-> type,
                            resources |-> resources, key |-> key,
                            allowed |-> allowed, result |-> results]
           /\ actionLog' = FilterResourcesLog(type, resources, results,
                                              key, allowed)
           /\ UNCHANGED <<registry, component, envVars, handlerVars, labelVars, metricVars, keyVars, logVars>>

\* Provider errors a wrapped call may raise: the classification boundary of
\* section 6 (class, code, status, message).
DryRunBenign ==
    [cls |-> "ClientError", code |-> "DryRunOperation", status |-> 412,
     msg |-> <<"Request", "would have succeeded", "but DryRun flag is set">>]

ApiErrors ==
    { DryRunBenign,
      [cls |-> "ClientError", code |-> "Foo", status |-> 0, msg |-> <<"Bar">>],
      [cls |-> "ClientError", code |-> "DryRunOperation", status |-> 412,
       msg |-> <<"would have failed">>],
      [cls |-> "ClientError", code |-> "DryRunOperation", status |-> 400,
       msg |-> <<"would have succeeded">>],
      [cls |-> "ClientError", code |-> "UnauthorizedOperation", status |-> 412,
       msg |-> <<"would have succeeded">>],
      [cls |-> "ValueError", code |-> "", status |-> 0, msg |-> <<"boom">>] }

ApiResults == { "ok", "created" }

\* The classified expected/benign error: the dry-run sentinel.
IsBenign(err) ==
    /\ err.cls = "ClientError"
    /\ err.code = "DryRunOperation"
    /\ err.status = 412
    /\ \E i \in 1..Len(err.msg) : err.msg[i] = "would have succeeded"

\* A variant of RunApiOutcome that re-raises every error, the benign one too.
RunApiOutcomeRaiseAll(call) ==
    IF call.kind = "return" THEN [kind |-> "returned", value |-> Some(call.value)]
    ELSE [kind |-> "raised", err |-> call.err]

\* A variant of RunApiOutcome that swallows every dry-run error, whatever
\* its status and message.
RunApiOutcomeSwallowDryRun(call) ==
    IF call.kind = "return" THEN [kind |-> "returned", value |-> Some(call.value)]
    ELSE IF call.err.code = "DryRunOperation"
         THEN [kind |-> "returned", value |-> None]
         ELSE [kind |-> "raised", err |-> call.err]

\* The outcome of _run_api for what the wrapped call did.
RunApiOutcome(call) ==
    IF call.kind = "return" THEN [kind |-> "returned", value |-> Some(call.value)]
    ELSE IF IsBenign(call.err) THEN [kind |-> "returned", value |-> None]
    ELSE [kind |-> "raised", err |-> call.err]

\* Action._run_api(cmd)
RunApi ==
    \E call \in {[kind |-> "return", value |-> v] : v \in ApiResults}
                \cup {[kind |-> "raise", err |-> e] : e \in ApiErrors} :
        /\ actionOut = ActionIdle
        /\ actionOut' = [op |-> "_run_api", call |-> call,
                         outcome |-> RunApiOutcome(call)]
        /\ actionLog' = IF call.kind = "raise" /\ IsBenign(call.err)
                        THEN << "Dry run operation action succeeded" >>
                        ELSE << >>
        /\ UNCHANGED <<registry, component, envVars, handlerVars, labelVars, metricVars, keyVars, logVars>>

\* Type names a spec may carry, and the classes behind them.
TypeNames == { "foo", "stop", "mark-for-op", "notify" }

\* The specs handed to factory: an empty dict, a dict with a type, a bare
\* type name.
FactorySpecs ==
    { [form |-> "dict", type |-> None] }
    \cup {[form |-> "dict", type |-> Some(n)] : n \in TypeNames}
    \cup {[form |-> "name", type |-> Some(n)] : n \in TypeNames}

\* ActionRegistry.register(name, implementation): a duplicate name fails
\* fast and leaves the registry as it was.
Register ==
    \E name \in TypeNames :
        /\ actionOut = ActionIdle
        /\ registry' = registry \cup {name}
        /\ actionOut' = [op |-> "register", name |-> name,
                         outcome |-> IF name \in registry THEN "duplicate"
                                     ELSE "registered"]
        /\ actionLog' = << >>
        /\ UNCHANGED <<component, envVars, handlerVars, labelVars, metricVars, keyVars, logVars>>

\* A variant of FactoryOutcome that looks an unregistered name up unguarded.
FactoryOutcomeRawLookup(data, names) ==
    IF data.type = None THEN [kind |-> "raised", err |-> "PolicyValidationError"]
    ELSE IF data.type[1] \notin names
         THEN [kind |-> "raised", err |-> "KeyError"]
         ELSE [kind |-> "returned", cls |-> data.type[1]]

\* The outcome of factory for a spec and the names registered.
FactoryOutcome(data, names) ==
    IF data.type = None THEN [kind |-> "raised", err |-> "PolicyValidationError"]
    ELSE IF data.type[1] \notin names
         THEN [kind |-> "raised", err |-> "PolicyValidationError"]
         ELSE [kind |-> "returned", cls |-> data.type[1]]

\* ActionRegistry.factory(data, manager)
Factory ==
    \E data \in FactorySpecs :
        /\ actionOut = ActionIdle
        /\ actionOut' = [op |-> "factory", data |-> data, names |-> registry,
                         outcome |-> FactoryOutcome(data, registry)]
        /\ actionLog' = << >>
        /\ UNCHANGED <<registry, component, envVars, handlerVars, labelVars, metricVars, keyVars, logVars>>

\* The action classes: the base Action, and concrete ones that override
\* process.
ActionClasses == { "Action", "Stop", "Label" }

OverridesProcess(cls) == cls # "Action"

\* A variant of ProcessOutcome that returns at once when handed no resources.
ProcessOutcomeSkipNone(cls, resources) ==
    IF OverridesProcess(cls) \/ resources = None THEN [kind |-> "returned"]
    ELSE [kind |-> "raised", err |-> "NotImplementedError"]

\* The outcome of process on an instance of a class.
ProcessOutcome(cls, resources) ==
    IF OverridesProcess(cls) THEN [kind |-> "returned"]
    ELSE [kind |-> "raised", err |-> "NotImplementedError"]

\* Action.process(resources); resources may be None.
ActionProcess ==
    \E cls \in ActionClasses,
       resources \in {None} \cup {Some(rs) : rs \in SeqsUpTo(ActionResources, 0, 1)} :
        /\ actionOut = ActionIdle
        /\ actionOut' = [op |-> "process", cls |-> cls, resources |-> resources,
                         outcome |-> ProcessOutcome(cls, resources)]
        /\ actionLog' = << >>
        /\ UNCHANGED <<registry, component, envVars, handlerVars, labelVars, metricVars, keyVars, logVars>>

\* The metric filter's variables while another component is exercised.
IdleMetricVars ==
    /\ mFilters = << >>
    /\ mRes = << >>
    /\ mProc = << >>
    /\ mOut = << >>
    /\ mRuns = 0
    /\ mPrev = << >>
    /\ mHist = << >>

\* The cache-key computation's variables while another component is
\* exercised.
IdleKeyVars ==
    /\ kPair = << >>
    /\ kKeys = << >>

\* The log filter's variables while another component is exercised.
IdleLogVars ==
    /\ lFilter = << >>
    /\ lCount = 0
    /\ lPc = "off"
    /\ lChunk = 0
    /\ lAttempt = 0
    /\ lResults = << >>
    /\ lAnn = << >>
    /\ lLast = << >>
    /\ lOut = << >>
    /\ lCalls = << >>

\* The label actions' variables while another component is exercised.
IdleLabelVars ==
    /\ lbNow = << >>
    /\ lbAction = << >>
    /\ lbRes = << >>
    /\ lbOut = << >>

\* The function handler's variables while another component is exercised.
IdleHandlerVars ==
    /\ hFile = << >>
    /\ hData = << >>
    /\ hConfig = << >>
    /\ hRun = << >>
    /\ hOut = << >>
    /\ hCount = << >>

\* The process environment's variables while another component is
\* exercised.
IdleEnvVars ==
    /\ eEnv = << >>
    /\ eCtx = << >>
    /\ eCache = "off"

InitActionVars ==
    /\ registry = {}
    /\ actionOut = ActionIdle
    /\ actionLog = << >>

\* The caller has read the outcome and the captured log of the last call.
ActionReturn ==
    /\ actionOut # ActionIdle
    /\ actionOut' = ActionIdle
    /\ actionLog' = << >>
    /\ UNCHANGED <<registry, component, envVars, handlerVars, labelVars, metricVars, keyVars, logVars>>

\* Calls on an Action instance.
NextActions ==
    \/ FilterResources
    \/ RunApi
    \/ ActionProcess
    \/ ActionReturn

\* Calls on an ActionRegistry.
NextRegistry ==
    \/ Register
    \/ Factory
    \/ ActionReturn

vars == <<component, actionVars, metricVars, keyVars, logVars, labelVars,
          handlerVars, envVars>>

InitActions ==
    /\ component = "actions"
    /\ InitActionVars
    /\ IdleMetricVars
    /\ IdleKeyVars
    /\ IdleLogVars
    /\ IdleLabelVars
    /\ IdleHandlerVars
    /\ IdleEnvVars

SpecActions == InitActions /\ [][NextActions]_vars

InitRegistry ==
    /\ component = "registry"
    /\ InitActionVars
    /\ IdleMetricVars
    /\ IdleKeyVars
    /\ IdleLogVars
    /\ IdleLabelVars
    /\ IdleHandlerVars
    /\ IdleEnvVars

SpecRegistry == InitRegistry /\ [][NextRegistry]_vars

(***************************************************************************)
(* Claims about the action framework, checked under SpecActions.           *)
(***************************************************************************)

\* The indices of the resources of a filter_resources call whose value at
\* the key path is among the allowed values.
MatchingIndices(out) ==
    { j \in 1..Len(out.resources) :
        InAllowed(ResolveKey(out.resources[j], out.key), out.allowed) }

\* The i-th smallest member of a set of indices.
NthIndex(S, i) == CHOOSE j \in S : Cardinality({k \in S : k <= j}) = i

\* C1: filter_resources returns exactly the resources whose value resolved
\* at the key path is in the allowed values, each once and in the relative
\* order of the input: the i-th result is the i-th matching input.
C1_FilterResourcesExact ==
    actionOut.op = "filter_resources" =>
        LET idx == MatchingIndices(actionOut)
        IN /\ Len(actionOut.result) = Cardinality(idx)
           /\ \A i \in 1..Len(actionOut.result) :
                actionOut.result[i] = actionOut.resources[NthIndex(idx, i)]

\* C1 witness: the call of test_filter_resources keeps X and Z, in that
\* order, and drops Y between them.
C1_Witness ==
    /\ actionOut.op = "filter_resources"
    /\ actionOut.key = <<"state", "status">>
    /\ actionOut.allowed = <<"running">>
    /\ Len(actionOut.resources) = 3
    /\ actionOut.resources[1].m.app = StrV("X")
    /\ actionOut.resources[2].m.app = StrV("Y")
    /\ actionOut.resources[3].m.app = StrV("Z")
    /\ Len(actionOut.result) = 2
    /\ actionOut.result[1].m.app = StrV("X")
    /\ actionOut.result[2].m.app = StrV("Z")

C3_BenignSwallowed ==
    (actionOut.op = "_run_api" /\ actionOut.call.kind = "raise"
       /\ actionOut.call.err.cls = "ClientError"
       /\ actionOut.call.err.code = "DryRunOperation"
       /\ actionOut.call.err.status = 412
       /\ \E i \in 1..Len(actionOut.call.err.msg) :
            actionOut.call.err.msg[i] = "would have succeeded") =>
        actionOut.outcome = [kind |-> "returned", value |-> None]

\* C3 witness: the wrapped call raised the dry-run error and _run_api
\* returned.
C3_Witness ==
    /\ actionOut.op = "_run_api"
    /\ actionOut.call = [kind |-> "raise", err |-> DryRunBenign]
    /\ actionOut.outcome.kind = "returned"

\* C4: _run_api propagates unchanged every error of the wrapped call that
\* is not classified benign: the caller sees that same error.
C4_OtherErrorsPropagate ==
    (actionOut.op = "_run_api" /\ actionOut.call.kind = "raise"
       /\ ~IsBenign(actionOut.call.err)) =>
        actionOut.outcome = [kind |-> "raised", err |-> actionOut.call.err]

\* C4 witness: a dry-run client error with status 400, one field away from
\* the benign one, was raised to the caller.
C4_Witness ==
    /\ actionOut.op = "_run_api"
    /\ actionOut.call.kind = "raise"
    /\ actionOut.call.err.code = "DryRunOperation"
    /\ actionOut.call.err.status = 400
    /\ actionOut.outcome.kind = "raised"

\* C5: factory fails with a PolicyValidationError, never a raw lookup or
\* attribute error, for a spec with no type and for a spec whose type name
\* is not registered, whatever names have been registered.
C5_FactoryValidationError ==
    (actionOut.op = "factory"
       /\ (actionOut.data.type = None
             \/ actionOut.data.type[1] \notin actionOut.names)) =>
        actionOut.outcome = [kind |-> "raised", err |-> "PolicyValidationError"]

\* C5 witness: with other names registered, factory was handed the
\* unregistered name 'foo' and failed.
C5_Witness ==
    /\ actionOut.op = "factory"
    /\ actionOut.names = {"stop", "mark-for-op"}
    /\ actionOut.data = [form |-> "name", type |-> Some("foo")]
    /\ actionOut.outcome.kind = "raised"

\* C6: process on the base Action, which no concrete action has
\* overridden, fails with a not-implemented error, also for resources None.
C6_ProcessNotImplemented ==
    (actionOut.op = "process" /\ actionOut.cls = "Action") =>
        actionOut.outcome = [kind |-> "raised", err |-> "NotImplementedError"]

\* C6 witness: Action().process(None) raised.
C6_Witness ==
    /\ actionOut.op = "process"
    /\ actionOut.cls = "Action"
    /\ actionOut.resources = None
    /\ actionOut.outcome.kind = "raised"

(***************************************************************************)
(* The Stackdriver metric filter (c7n_gcp/filters/metrics_filter.py).      *)
(***************************************************************************)

DEFAULT_TIMEFRAME == 24

DEFAULT_ALIGNAER == "mean"

DEFAULT_AGGREGATION == "mean"

\* scalar_ops: the comparison an operator name stands for.
ScalarOp(name, a, b) ==
    CASE name \in {"eq", "equal"} -> a = b
      [] name \in {"ne", "not-equal"} -> a # b
      [] name \in {"gt", "greater-than"} -> a > b
      [] name \in {"ge", "gte"} -> a >= b
      [] name \in {"le", "lte"} -> a <= b
      [] name \in {"lt", "less-than"} -> a < b

\* str(float(n)) for a whole number of hours n.
FloatStr(n) == ToString(n) \o ".0"

\* '{}'.format(v) for an optional string: None prints as 'None'.
FormatOpt(v) == IF v = None THEN "None" ELSE v[1]

\* The attributes __init__ derives from the filter's data.
MetricsFilterInit(data) ==
    [ metric |-> data.metric,
      op |-> data.op,
      threshold |-> data.threshold,
      timeframe |-> Get(data, "timeframe", DEFAULT_TIMEFRAME),
      aligner |-> Get(data, "aligner", DEFAULT_ALIGNAER),
      aggregation |-> Get(data, "aggregation", DEFAULT_AGGREGATION),
      filter |-> IF "filter" \in DOMAIN data THEN Some(data.filter) ELSE None,
      no_data_action |-> Get(data, "no_data_action", "exclude") ]

\* _get_metrics_cache_key, on the attributes of a filter instance.
MetricsCacheKey(self) ==
    "metric: " \o self.metric \o ", aggregation: " \o self.aggregation
      \o ", aligner: " \o self.aligner \o ", timeframe: "
      \o FloatStr(self.timeframe) \o ", filter: " \o FormatOpt(self.filter)

\* get_filter: the filter string of the timeSeries.list request.
MetricsGetFilter(self, resource, project) ==
    "resource.labels.instance_id=\"" \o resource.id
      \o "\" resource.labels.project_id=\"" \o project
      \o "\" metric.type=\"" \o self.metric \o "\" " \o FormatOpt(self.filter)

\* The parameters of the timeSeries.list request that depend on the filter
\* instance and the resource (the interval ends at the time of the call).
MetricsRequest(self, resource, project) ==
    [ name |-> "projects/" \o project,
      hours |-> self.timeframe,
      aggregation_crossSeriesReducer |-> self.aggregation,
      aggregation_perSeriesAligner |-> self.aligner,
      filter |-> MetricsGetFilter(self, resource, project) ]

\* get_annotation_prefix('metrics')
MetricsAnnotation == "c7n:metrics"

\* d[k] = v on a dict.
SetItem(d, k, v) == [x \in DOMAIN d \cup {k} |-> IF x = k THEN v ELSE d[x]]

\* A variant of GetCachedMetricData that takes an entry whose value is None
\* for a miss.
GetCachedMetricDataByValue(self, resource) ==
    LET metrics == Get(resource, MetricsAnnotation, None)
    IN IF metrics = None \/ DOMAIN metrics = {} THEN None
       ELSE IF /\ MetricsCacheKey(self) \in DOMAIN metrics
               /\ metrics[MetricsCacheKey(self)].value # None
            THEN Some(metrics[MetricsCacheKey(self)])
            ELSE None

\* _get_cached_metric_data: None, or the entry cached under the key.
GetCachedMetricData(self, resource) ==
    LET metrics == Get(resource, MetricsAnnotation, None)
    IN IF metrics = None \/ DOMAIN metrics = {} THEN None
       ELSE IF MetricsCacheKey(self) \in DOMAIN metrics
            THEN Some(metrics[MetricsCacheKey(self)])
            ELSE None

\* A variant of WriteMetricToResource that writes under a key without the
\* annotation prefix.
WriteMetricToResourceUnprefixed(self, resource, metrics_data, value) ==
    LET metrics == Get(resource, "metrics", EmptyDict)
    IN SetItem(resource, "metrics",
               SetItem(metrics, MetricsCacheKey(self),
                       [metrics_data |-> metrics_data, value |-> value]))

\* A variant of WriteMetricToResource whose entry loses the value.
WriteMetricToResourceValueLost(self, resource, metrics_data, value) ==
    LET metrics == Get(resource, MetricsAnnotation, EmptyDict)
    IN SetItem(resource, MetricsAnnotation,
               SetItem(metrics, MetricsCacheKey(self),
                       [metrics_data |-> metrics_data, value |-> None]))

\* _write_metric_to_resource: the resource with the entry set under the key.
WriteMetricToResource(self, resource, metrics_data, value) ==
    LET metrics == Get(resource, MetricsAnnotation, EmptyDict)
    IN SetItem(resource, MetricsAnnotation,
               SetItem(metrics, MetricsCacheKey(self),
                       [metrics_data |-> metrics_data, value |-> value]))

\* What get_metric_data makes of a response: no value, too much data, or
\* the one point's value.  A response is falsy (present FALSE) or carries
\* timeSeries, each a sequence of point values.
MetricValue(metrics_data) ==
    IF \/ ~metrics_data.present
       \/ Len(metrics_data.timeSeries) = 0
       \/ Len(metrics_data.timeSeries[1]) = 0
    THEN [kind |-> "value", value |-> None]
    ELSE IF \/ Len(metrics_data.timeSeries) > 1
            \/ Len(metrics_data.timeSeries[1]) > 1
         THEN [kind |-> "raise", err |-> "ValueError"]
         ELSE [kind |-> "value", value |-> Some(metrics_data.timeSeries[1][1])]

\* A variant of PassesOpFilter that compares a missing value as 0.
PassesOpFilterNoneAsZero(self, value) ==
    ScalarOp(self.op, IF value = None THEN 0 ELSE value[1], self.threshold)

\* passes_op_filter, given the value get_metric_data returned.
PassesOpFilter(self, value) ==
    IF value = None THEN self.no_data_action = "include"
    ELSE ScalarOp(self.op, value[1], self.threshold)

\* The resource records a behaviour works on, by object identity, as the
\* resource fetch returned them.
Refs == { "r1", "r2" }

FetchedResource(ref) ==
    IF ref = "r1" THEN [id |-> "i-1", status |-> "RUNNING"]
    ELSE [id |-> "i-2", status |-> "TERMINATED"]

ProjectId == "proj"

\* The data of a filter that leaves every default out.
MetricDefaults == [metric |-> "cpu", op |-> "ne", threshold |-> 2]

\* The data of a filter with the same effective parameters, spelled out,
\* that compares otherwise and includes resources without data.
MetricSpelledOut ==
    [metric |-> "cpu", op |-> "gt", threshold |-> 5,
     aggregation |-> "mean", aligner |-> "mean", timeframe |-> 24,
     no_data_action |-> "include"]

\* The data of a filter that fetches other data.
MetricOther ==
    [metric |-> "cpu", op |-> "eq", threshold |-> 3, filter |-> "x",
     timeframe |-> 1, no_data_action |-> "exclude"]

\* The responses of the monitoring API.
MetricResponses ==
    { [present |-> FALSE, timeSeries |-> << >>],
      [present |-> TRUE, timeSeries |-> << >>],
      [present |-> TRUE, timeSeries |-> << << >> >>],
      [present |-> TRUE, timeSeries |-> << <<3>> >>],
      [present |-> TRUE, timeSeries |-> << <<1>>, <<3>> >>],
      [present |-> TRUE, timeSeries |-> << <<1, 3>> >>],
      [present |-> TRUE, timeSeries |-> << << >>, <<3>> >>] }

\* No MetricsFilter.process call is running.
NoProc == [filter |-> 0, input |-> << >>, tasks |-> << >>]

\* The filter instances of one behaviour: two with the same effective
\* parameters (defaults left out or spelled out), or two that differ.
MetricFilterPairs ==
    { <<MetricDefaults, MetricSpelledOut>>,
      <<MetricDefaults, MetricOther>>,
      <<MetricSpelledOut, MetricOther>> }

\* The cache keys of the filter instances.
MetricKeys == { MetricsCacheKey(MetricsFilterInit(mFilters[i])) :
                  i \in 1..Len(mFilters) }

\* Of one record and cache key: whether an evaluation has finished with a
\* value (or with no data), how many evaluations began before any had
\* finished, and how many remote calls were issued.
NoHist == [valued |-> FALSE, early |-> 0, calls |-> 0]

InitMetricVars ==
    /\ mFilters \in MetricFilterPairs
    /\ mRes = [r \in Refs |-> FetchedResource(r)]
    /\ mProc = NoProc
    /\ mOut = << >>
    /\ mRuns = 0
    /\ mPrev = << >>
    /\ mHist = [r \in Refs |-> [k \in MetricKeys |-> NoHist]]

\* The filter instance of the running process call, and its cache key.
MSelf == MetricsFilterInit(mFilters[mProc.filter])

MKey == MetricsCacheKey(MSelf)

\* process: the pool maps process_resource over the resources, one task
\* per list item; the list may name a record more than once.
MetricProcessStart ==
    \E i \in 1..2, input \in SeqsUpTo(Refs, 0, Cardinality(Refs)) :
        /\ mProc = NoProc
        /\ mRuns < MaxRuns
        /\ mProc' = [filter |-> i, input |-> input,
                     tasks |-> [j \in 1..Len(input) |->
                                  [pc |-> "check", fetched |-> FALSE,
                                   late |-> FALSE, got |-> << >>,
                                   keep |-> FALSE, seq |-> 0]]]
        /\ mRuns' = mRuns + 1
        /\ mOut' = << >>
        /\ mPrev' = IF /\ mOut # << >> /\ mOut.kind = "returned"
                       /\ mOut.filter = i /\ mOut.input = input
                    THEN [values |-> mOut.values, resources |-> mOut.resources]
                    ELSE << >>
        /\ UNCHANGED <<mFilters, mRes, mHist, component, envVars, handlerVars, labelVars, actionVars, keyVars, logVars>>

\* The place in the order of completion of the task that ends next.
NextSeq == 1 + Cardinality({ j \in 1..Len(mProc.input) : mProc.tasks[j].seq > 0 })

\* A task begins get_metric_data: it reads the annotation and, on a hit,
\* returns the cached value; process_resource keeps or drops the resource.
MetricCheckCache ==
    \E j \in 1..Len(mProc.input) :
        LET ref == mProc.input[j]
            cached == GetCachedMetricData(MSelf, mRes[ref])
            h == mHist[ref][MKey]
            h1 == [h EXCEPT !.early = IF h.valued THEN @ ELSE @ + 1]
        IN /\ mProc.tasks[j].pc = "check"
           /\ IF cached # None
              THEN /\ mProc' = [mProc EXCEPT !.tasks[j] =
                        [@ EXCEPT !.pc = "done", !.late = h.valued,
                                  !.seq = NextSeq,
                                  !.got = <<cached[1].value>>,
                                  !.keep = PassesOpFilter(MSelf, cached[1].value)]]
                   /\ mHist' = [mHist EXCEPT ![ref][MKey] =
                                   [h1 EXCEPT !.valued = TRUE]]
              ELSE /\ mProc' = [mProc EXCEPT !.tasks[j] =
                        [@ EXCEPT !.pc = "call", !.late = h.valued]]
                   /\ mHist' = [mHist EXCEPT ![ref][MKey] = h1]
           /\ UNCHANGED <<mFilters, mRes, mOut, mRuns, mPrev, component, envVars, handlerVars, labelVars, actionVars, keyVars, logVars>>

\* get_metric_data after a cache miss, given the response of the remote
\* call: the error it raises or the value it returns, and the resource as
\* it leaves it.
GetMetricDataFetched(self, resource, metrics_data) ==
    LET got == MetricValue(metrics_data)
    IN IF got.kind = "raise"
       THEN [kind |-> "raise", err |-> got.err, resource |-> resource]
       ELSE [kind |-> "value", value |-> got.value,
             resource |-> WriteMetricToResource(self, resource, metrics_data,
                                                got.value)]

\* A task's remote call returns.  Too much data raises; anything else is
\* written to the resource's annotation and returned, and process_resource
\* keeps or drops the resource.
MetricFetch ==
    \E j \in 1..Len(mProc.input), metrics_data \in MetricResponses :
        LET ref == mProc.input[j]
            got == GetMetricDataFetched(MSelf, mRes[ref], metrics_data)
        IN /\ mProc.tasks[j].pc = "call"
           /\ mRes' = [mRes EXCEPT ![ref] = got.resource]
           /\ IF got.kind = "raise"
              THEN /\ mProc' = [mProc EXCEPT !.tasks[j] =
                        [@ EXCEPT !.pc = "raised", !.fetched = TRUE,
                                  !.seq = NextSeq]]
                   /\ mHist' = [mHist EXCEPT ![ref][MKey].calls = @ + 1]
              ELSE /\ mProc' = [mProc EXCEPT !.tasks[j] =
                        [@ EXCEPT !.pc = "done", !.fetched = TRUE,
                                  !.seq = NextSeq,
                                  !.got = <<got.value>>,
                                  !.keep = PassesOpFilter(MSelf, got.value)]]
                   /\ mHist' = [mHist EXCEPT ![ref][MKey] =
                        [@ EXCEPT !.calls = @ + 1, !.valued = TRUE]]
           /\ UNCHANGED <<mFilters, mOut, mRuns, mPrev, component, envVars, handlerVars, labelVars, actionVars, keyVars, logVars>>

\* A variant of Processed that lists the results as the tasks completed.
ProcessedAsCompleted(input, tasks) ==
    [n \in 1..Len(input) |->
        LET j == CHOOSE k \in 1..Len(input) : tasks[k].seq = n
        IN IF tasks[j].keep THEN Some(input[j]) ELSE None]

\* processed: what process_resource returned per list item, the resource
\* or None.
Processed(input, tasks) ==
    [j \in 1..Len(input) |-> IF tasks[j].keep THEN Some(input[j]) ELSE None]

\* [item for item in processed if item is not None]
RECURSIVE NotNone(_)
NotNone(processed) ==
    IF processed = << >> THEN << >>
    ELSE (IF Head(processed) # None THEN Head(processed) ELSE << >>)
         \o NotNone(Tail(processed))

\* What process hands its caller once every task has ended: the error of
\* a task that raised, else the resources kept.  The outcome also records
\* the call's filter instance and input, and the value each task got.
MetricProcessOutcome(filter, input, tasks) ==
    IF \E j \in 1..Len(input) : tasks[j].pc = "raised"
    THEN [kind |-> "raised", err |-> "ValueError", filter |-> filter,
          input |-> input]
    ELSE [kind |-> "returned", filter |-> filter, input |-> input,
          values |-> [j \in 1..Len(input) |-> tasks[j].got],
          completed |-> [j \in 1..Len(input) |-> tasks[j].seq],
          processed |-> Processed(input, tasks),
          resources |-> NotNone(Processed(input, tasks))]

\* The pool has run every task: list(w.map(...)) yields the results in
\* input order, or raises what a task raised.
MetricJoin ==
    /\ mProc # NoProc
    /\ \A j \in 1..Len(mProc.input) : mProc.tasks[j].pc \in {"done", "raised"}
    /\ mOut' = MetricProcessOutcome(mProc.filter, mProc.input, mProc.tasks)
    /\ mProc' = NoProc
    /\ UNCHANGED <<mFilters, mRes, mRuns, mPrev, mHist, component, envVars, handlerVars, labelVars, actionVars, keyVars, logVars>>

NextMetrics ==
    \/ MetricProcessStart
    \/ MetricCheckCache
    \/ MetricFetch
    \/ MetricJoin

InitMetrics ==
    /\ component = "metrics"
    /\ InitMetricVars
    /\ InitActionVars
    /\ IdleKeyVars
    /\ IdleLogVars
    /\ IdleLabelVars
    /\ IdleHandlerVars
    /\ IdleEnvVars

SpecMetrics == InitMetrics /\ [][NextMetrics]_vars

(***************************************************************************)
(* Claims about the metric filter, checked under SpecMetrics.              *)
(***************************************************************************)

\* C7: an evaluation of a record under a cache key that begins after an
\* evaluation of that record under that key has finished, with a value or
\* with no data points, issues no remote call and reads the annotation; so
\* a record evaluated under one key by evaluations of which one began
\* before any had finished has cost exactly one remote call.
C7_SecondEvaluationCached ==
    /\ \A j \in 1..Len(mProc.input) :
         mProc.tasks[j].late =>
            mProc.tasks[j].pc = "done" /\ ~mProc.tasks[j].fetched
    /\ \A r \in Refs : \A k \in DOMAIN mHist[r] :
         (mHist[r][k].valued /\ mHist[r][k].early = 1) =>
            mHist[r][k].calls = 1

\* C7 witness: the filter that spells the defaults out evaluates a record
\* whose one fetch, under the same key, returned no data points, and reads
\* the annotation.
C7_Witness ==
    /\ mFilters = <<MetricDefaults, MetricSpelledOut>>
    /\ mProc.filter = 2
    /\ \E j \in 1..Len(mProc.input) :
         /\ mProc.tasks[j].late
         /\ mProc.tasks[j].pc = "done"
         /\ mProc.tasks[j].got = <<None>>
         /\ mHist[mProc.input[j]][MKey] =
              [valued |-> TRUE, early |-> 1, calls |-> 1]

\* Whether a filter's data asks to include resources without data.
AsksInclude(data) ==
    "no_data_action" \in DOMAIN data /\ data.no_data_action = "include"

\* C9: a resource whose metric fetch (or cached entry) yields no data
\* points is kept when no_data_action is 'include' and dropped when it is
\* 'exclude' or not given, whatever the operator and threshold, and its
\* task does not raise.
C9_NoDataAction ==
    /\ \A j \in 1..Len(mProc.input) :
         mProc.tasks[j].got = <<None>> =>
            /\ mProc.tasks[j].pc = "done"
            /\ mProc.tasks[j].keep = AsksInclude(mFilters[mProc.filter])
    /\ mOut # << >> /\ mOut.kind = "returned" =>
         \A j \in 1..Len(mOut.input) :
            mOut.values[j] = <<None>> =>
               mOut.processed[j] =
                  IF AsksInclude(mFilters[mOut.filter])
                  THEN Some(mOut.input[j]) ELSE None

\* C9 witness: one call returned a record without data under 'include';
\* the filter's operator and threshold (gt 5) would have dropped a zero.
C9_Witness ==
    /\ mOut # << >>
    /\ mOut.kind = "returned"
    /\ mFilters[mOut.filter] = MetricSpelledOut
    /\ mOut.input = <<"r1", "r2">>
    /\ mOut.values[1] = <<None>>
    /\ mOut.values[2] = <<Some(3)>>
    /\ mOut.resources = <<"r1">>

(***************************************************************************)
(* The Stackdriver log filter (c7n_gcp/filters/log_filter.py).             *)
(***************************************************************************)

\* chunks(resources, 100): the resources of one remote call.
ChunkSize == 100

\* The days process looks back when the data gives no filter_days.
DefaultFilterDays == 30

\* stop_max_attempt_number of the retry decorator.
StopMaxAttemptNumber == 10

\* '%02d' for a day of the month.
Pad2(n) == IF n < 10 THEN "0" \o ToString(n) ELSE ToString(n)

\* '{time_from:%Y-%m-%d}' for time_from = now - timedelta(days), on a day
\* when now is 2019-12-31 and for up to 30 days back.
TimeFromStr(days) == "2019-12-" \o Pad2(31 - days)

\* get_filter: the filter string of the entries.list request for the
\* resource ids of one chunk.
LogGetFilter(data, ids, project) ==
    "timestamp>=" \o TimeFromStr(Get(data, "filter_days", DefaultFilterDays))
      \o " AND resource.labels.instance_id = (" \o Join(ids, " OR ")
      \o ") AND log_name=\"projects/" \o project
      \o "/logs/cloudaudit.googleapis.com%2Factivity\" AND ("
      \o data.filter \o ")"

\* StackdriverLogFilter._get_metrics_cache_key
LogCacheKey(data) == "test"

\* get_annotation_prefix('filtered_logs')
LogsAnnotation == "c7n:filtered_logs"

\* The data of the stackdriver-logs filters of a behaviour.
LogData ==
    { [filter |-> "jsonPayload.event_subtype:compute.instances.stop"],
      [filter |-> "jsonPayload.event_subtype:compute.instances.stop",
       filter_days |-> 30],
      [filter |-> "jsonPayload.event_subtype:compute.instances.stop",
       filter_days |-> 7],
      [filter |-> "jsonPayload.event_subtype:compute.instances.start",
       filter_days |-> 7] }

(***************************************************************************)
(* The annotation cache keys as functions of the filter parameters.        *)
(***************************************************************************)

\* Metric filter data for the key computation: the filters above, one
\* whose filter is the string 'None', one with another aggregation, and
\* two whose metric and filter strings quote the key's own separators.
MetricKeyData ==
    { MetricDefaults, MetricSpelledOut, MetricOther,
      [metric |-> "cpu", op |-> "gt", threshold |-> 2, filter |-> "None"],
      [metric |-> "cpu", op |-> "gt", threshold |-> 2, aggregation |-> "max"],
      [metric |-> "cpu", op |-> "gt", threshold |-> 2, aligner |-> "max"],
      [metric |-> "cpu", op |-> "gt", threshold |-> 2,
       filter |-> "x, aggregation: mean, aligner: mean, timeframe: 24.0, filter: y"],
      [metric |-> "cpu, aggregation: mean, aligner: mean, timeframe: 24.0, filter: x",
       op |-> "gt", threshold |-> 2, filter |-> "y"] }

\* The cache key of a filter instance of either type.
CacheKeyOf(f) ==
    IF f.type = "metric" THEN MetricsCacheKey(MetricsFilterInit(f.data))
    ELSE LogCacheKey(f.data)

\* The request a filter instance sends for resource r1: what it fetches.
RequestOf(f) ==
    IF f.type = "metric"
    THEN MetricsRequest(MetricsFilterInit(f.data), FetchedResource("r1"), ProjectId)
    ELSE [filter |-> LogGetFilter(f.data, <<FetchedResource("r1").id>>, ProjectId)]

InitKeyVars ==
    /\ kPair \in [1..2 -> {[type |-> "metric", data |-> d] : d \in MetricKeyData}]
                 \cup [1..2 -> {[type |-> "stackdriver-logs", data |-> d] :
                                  d \in LogData}]
    /\ kKeys = << >>

\* Two metric filter instances compute their cache keys.
MetricKeysCompute ==
    /\ kKeys = << >>
    /\ kPair[1].type = "metric"
    /\ kKeys' = [i \in 1..2 |-> CacheKeyOf(kPair[i])]
    /\ UNCHANGED <<kPair, component, envVars, handlerVars, labelVars, actionVars, metricVars, logVars>>

\* Two stackdriver-logs filter instances compute their cache keys.
LogKeysCompute ==
    /\ kKeys = << >>
    /\ kPair[1].type = "stackdriver-logs"
    /\ kKeys' = [i \in 1..2 |-> CacheKeyOf(kPair[i])]
    /\ UNCHANGED <<kPair, component, envVars, handlerVars, labelVars, actionVars, metricVars, logVars>>

NextKeys ==
    \/ MetricKeysCompute
    \/ LogKeysCompute

InitKeys ==
    /\ component = "keys"
    /\ InitKeyVars
    /\ InitActionVars
    /\ IdleMetricVars
    /\ IdleLogVars
    /\ IdleLabelVars
    /\ IdleHandlerVars
    /\ IdleEnvVars

SpecKeys == InitKeys /\ [][NextKeys]_vars

\* C8: two remote-data filters that differ in a parameter that changes
\* the data fetched never share an annotation cache key, for the metric
\* filter and for the stackdriver-logs filter (its filter string and
\* filter_days) alike.
C8_DistinctCacheKeys ==
    kKeys # << >> =>
        (RequestOf(kPair[1]) # RequestOf(kPair[2]) => kKeys[1] # kKeys[2])

(***************************************************************************)
(* StackdriverLogFilter.process: one retried remote call per chunk.        *)
(* Resource n of the input list has the id 'i-<n>'.                        *)
(***************************************************************************)

\* How many resources a process call is handed.
LogCounts == { 0, 1, ChunkSize, ChunkSize + 1, 2 * ChunkSize + 1 }

\* How many chunks chunks(resources, 100) yields for n resources.
NumChunks(n) == (n + ChunkSize - 1) \div ChunkSize

\* The resources (by number) of chunk c of n resources.
ChunkFirst(c) == (c - 1) * ChunkSize + 1

ChunkLast(c, n) == IF c * ChunkSize < n THEN c * ChunkSize ELSE n

\* The errors the entries.list call may raise.
LogErrors == { "TooManyRequests", "Forbidden" }

\* The log entries the call may return for a chunk: none, or entries of
\* its first and last resources in some order.
LogEntry(n, payload) == [instance_id |-> n, payload |-> payload]

LogEntryLists(c, n) ==
    { << >>,
      << LogEntry(ChunkFirst(c), "stop") >>,
      << LogEntry(ChunkLast(c, n), "stop"), LogEntry(ChunkFirst(c), "stop") >>,
      << LogEntry(ChunkFirst(c), "stop"), LogEntry(ChunkLast(c, n), "start"),
         LogEntry(ChunkFirst(c), "start") >> }

\* A variant of IsRetryableException that takes every error for retryable.
IsRetryableExceptionAny(e) == TRUE

\* is_retryable_exception
IsRetryableException(e) == e = "TooManyRequests"

\* A variant of RetryDecision that gives up one attempt early.
RetryDecisionEarly(e, attempt) ==
    IF ~IsRetryableException(e) THEN "raise"
    ELSE IF attempt + 1 >= StopMaxAttemptNumber THEN "raise"
    ELSE "retry"

\* A variant of RetryDecision that allows one attempt more.
RetryDecisionLate(e, attempt) ==
    IF ~IsRetryableException(e) THEN "raise"
    ELSE IF attempt > StopMaxAttemptNumber THEN "raise"
    ELSE "retry"

\* What the retry decorator does with an exception of the given attempt:
\* re-raise one that is not retryable, re-raise once the attempt number
\* has reached stop_max_attempt_number, else wait and call again.
RetryDecision(e, attempt) ==
    IF ~IsRetryableException(e) THEN "raise"
    ELSE IF attempt >= StopMaxAttemptNumber THEN "raise"
    ELSE "retry"

\* sorted(entries, key=instance_id): a stable insertion sort.  Ids are
\* compared by resource number; the grouping below does not depend on
\* the order between different ids.
RECURSIVE InsertSorted(_, _)
InsertSorted(sorted, e) ==
    IF sorted = << >> THEN <<e>>
    ELSE IF Head(sorted).instance_id <= e.instance_id
         THEN <<Head(sorted)>> \o InsertSorted(Tail(sorted), e)
         ELSE <<e>> \o sorted

\* A variant of SortedEntries that leaves the entries as returned.
SortedEntriesAsReturned(entries) == entries

RECURSIVE SortedEntries(_)
SortedEntries(entries) ==
    IF entries = << >> THEN << >>
    ELSE InsertSorted(SortedEntries(SubSeq(entries, 1, Len(entries) - 1)),
                      entries[Len(entries)])

\* _write_logs_to_resource: the logs are stored in the resource's
\* filtered_logs annotation under the filter's cache key.
WriteLogsToResource(resource, logs, data) ==
    LET resource_metrics == Get(resource, LogsAnnotation, EmptyDict)
    IN SetItem(resource, LogsAnnotation,
               SetItem(resource_metrics, LogCacheKey(data), logs))

\* The resource with a given id as the resource fetch returned it.
LogResource(id) == [id |-> id, status |-> "RUNNING"]

\* itertools.groupby over the sorted entries: each run of consecutive
\* entries with one instance_id is written, as a list, to the resource
\* with that id.
RECURSIVE WriteGroups(_, _, _)
WriteGroups(resource_map, sorted, data) ==
    IF sorted = << >> THEN resource_map
    ELSE LET id == Head(sorted).instance_id
             IsRun(k) == \A i \in 1..k : sorted[i].instance_id = id
             len == CHOOSE k \in 1..Len(sorted) :
                       IsRun(k) /\ (k = Len(sorted) \/ ~IsRun(k + 1))
             logs == SubSeq(sorted, 1, len)
             resource == Get(resource_map, id, LogResource(id))
         IN WriteGroups(SetItem(resource_map, id,
                                WriteLogsToResource(resource, logs, data)),
                        SubSeq(sorted, len + 1, Len(sorted)), data)

InitLogVars ==
    /\ lFilter \in LogData
    /\ lCount = 0
    /\ lPc = "idle"
    /\ lChunk = 0
    /\ lAttempt = 0
    /\ lResults = << >>
    /\ lAnn = EmptyDict
    /\ lLast = << >>
    /\ lOut = << >>
    /\ lCalls = << >>

\* After chunk c of n resources: the next chunk's first attempt, or the
\* end of the loop.
AfterChunk(c, n) ==
    IF c < NumChunks(n)
    THEN /\ lPc' = "call"
         /\ lChunk' = c + 1
         /\ lAttempt' = 1
    ELSE /\ lPc' = "filter"
         /\ lChunk' = 0
         /\ lAttempt' = 0

\* One more client.list_entries call for chunk c of n resources: the
\* resources its filter names, and how the call ended ('ok' or the error).
RecordCall(calls, c, n, outcome) ==
    LET call == [first |-> ChunkFirst(c), last |-> ChunkLast(c, n),
                 outcome |-> outcome]
    IN IF Len(calls) < c THEN Append(calls, <<call>>)
       ELSE [calls EXCEPT ![c] = Append(@, call)]

\* process is called with n resources and starts on the first chunk.
LogProcessStart ==
    \E n \in LogCounts :
        /\ lPc = "idle"
        /\ lCount' = n
        /\ lResults' = << >>
        /\ AfterChunk(0, n)
        /\ lCalls' = << >>
        /\ UNCHANGED <<lFilter, lAnn, lLast, lOut, component, envVars, handlerVars, labelVars, actionVars,
                       metricVars, keyVars>>

\* An attempt of process_resources raises: the decorator calls again or
\* lets the error out of process.
LogCallRaises ==
    \E e \in LogErrors :
        /\ lPc = "call"
        /\ lCalls' = RecordCall(lCalls, lChunk, lCount, e)
        /\ IF RetryDecision(e, lAttempt) = "retry"
           THEN /\ lAttempt' = lAttempt + 1
                /\ UNCHANGED <<lPc, lChunk, lLast, lOut>>
           ELSE /\ lPc' = "raised"
                /\ lOut' = [kind |-> "raised", err |-> e]
                /\ lLast' = [chunk |-> lChunk, attempts |-> lAttempt,
                             ok |-> FALSE, entries |-> << >>]
                /\ UNCHANGED <<lChunk, lAttempt>>
        /\ UNCHANGED <<lFilter, lCount, lResults, lAnn, component, envVars, handlerVars, labelVars, actionVars,
                       metricVars, keyVars>>

\* An attempt of process_resources returns: the entries are written to
\* the resources and the chunk is appended to results.
LogCallReturns ==
    \E entries \in LogEntryLists(lChunk, lCount) :
        /\ lPc = "call"
        /\ lCalls' = RecordCall(lCalls, lChunk, lCount, "ok")
        /\ lAnn' = WriteGroups(lAnn, SortedEntries(entries), lFilter)
        /\ lResults' = Append(lResults, lChunk)
        /\ lLast' = [chunk |-> lChunk, attempts |-> lAttempt, ok |-> TRUE,
                     entries |-> entries]
        /\ AfterChunk(lChunk, lCount)
        /\ UNCHANGED <<lFilter, lCount, lOut, component, envVars, handlerVars, labelVars, actionVars,
                       metricVars, keyVars>>

\* The loop is over: results is handed to ValueFilter.process.
LogHandOver ==
    /\ lPc = "filter"
    /\ lPc' = "returned"
    /\ lOut' = [kind |-> "returned", results |-> lResults]
    /\ UNCHANGED <<lFilter, lCount, lChunk, lAttempt, lResults, lAnn, lLast,
                   lCalls, component, envVars, handlerVars, labelVars, actionVars, metricVars, keyVars>>

NextLogs ==
    \/ LogProcessStart
    \/ LogCallRaises
    \/ LogCallReturns
    \/ LogHandOver

InitLogs ==
    /\ component = "logs"
    /\ InitLogVars
    /\ InitActionVars
    /\ IdleMetricVars
    /\ IdleKeyVars
    /\ IdleLabelVars
    /\ IdleHandlerVars
    /\ IdleEnvVars

SpecLogs == InitLogs /\ [][NextLogs]_vars

\* The entries of a list with a given instance_id, in the order returned.
EntriesOf(entries, id) == SelectSeq(entries, LAMBDA e : e.instance_id = id)

\* C10: a chunk whose remote call raises the rate-limit error N times and
\* then returns on attempt N+1, with N below the cap of 10 attempts, ends
\* well: its resources are appended to results, its entries are written,
\* and no error has surfaced; the rate-limit error surfaces only after the
\* 10th attempt raised it.
C10_RetryThenSuccess ==
    /\ (lLast # << >> /\ lLast.ok) =>
          /\ lLast.attempts - 1 < StopMaxAttemptNumber
          /\ lPc # "raised"
          /\ lResults # << >> /\ lResults[Len(lResults)] = lLast.chunk
          /\ \A i \in 1..Len(lLast.entries) :
               LET id == lLast.entries[i].instance_id
               IN lAnn[id][LogsAnnotation][LogCacheKey(lFilter)]
                     = EntriesOf(lLast.entries, id)
    /\ (lPc = "raised" /\ lOut.err = "TooManyRequests") =>
          lLast.attempts >= StopMaxAttemptNumber

\* C10 witness: the call on the second chunk raised the rate-limit error 9
\* times and returned entries on the 10th attempt.
C10_Witness ==
    /\ lLast # << >>
    /\ lLast.ok
    /\ lLast.chunk = 2
    /\ lLast.attempts = 10
    /\ Len(lLast.entries) = 3
    /\ lResults = <<1, 2>>

\* Whether every call of a list of calls ended with the given outcome.
AllEnded(calls, outcome) == \A i \in 1..Len(calls) : calls[i].outcome = outcome

\* C11: no chunk sees more than 10 remote-call attempts; a chunk whose 10
\* attempts all raised the rate-limit error is the last one begun, and the
\* process call has raised that error.
C11_AttemptsCapped ==
    \A c \in 1..Len(lCalls) :
        /\ Len(lCalls[c]) <= StopMaxAttemptNumber
        /\ (Len(lCalls[c]) = StopMaxAttemptNumber
              /\ AllEnded(lCalls[c], "TooManyRequests")) =>
               /\ c = Len(lCalls)
               /\ lPc = "raised"
               /\ lOut = [kind |-> "raised", err |-> "TooManyRequests"]

\* C11 witness: the second chunk's 10 attempts all raised the rate-limit
\* error and process raised it.
C11_Witness ==
    /\ Len(lCalls) = 2
    /\ Len(lCalls[2]) = 10
    /\ AllEnded(lCalls[2], "TooManyRequests")
    /\ lPc = "raised"

\* C12: a remote call that raised an error other than the rate-limit error
\* is the last call made: it is not repeated, and process has raised that
\* error.
C12_OtherErrorsNotRetried ==
    \A c \in 1..Len(lCalls) : \A i \in 1..Len(lCalls[c]) :
        lCalls[c][i].outcome \notin {"ok", "TooManyRequests"} =>
            /\ c = Len(lCalls)
            /\ i = Len(lCalls[c])
            /\ lPc = "raised"
            /\ lOut = [kind |-> "raised", err |-> lCalls[c][i].outcome]

\* C12 witness: the first attempt on the first chunk raised Forbidden and
\* process raised it after that one call.
C12_Witness ==
    /\ Len(lCalls) = 1
    /\ Len(lCalls[1]) = 1
    /\ lCalls[1][1].outcome = "Forbidden"
    /\ lPc = "raised"
    /\ lLast.attempts = 1

(***************************************************************************)
(* Claims about the worker-pool fan-out of the metric filter, checked      *)
(* under SpecMetrics.                                                      *)
(***************************************************************************)

\* The records of the tasks that ended without raising and passed the
\* filter, in input order.
PassingSiblings(input, tasks) ==
    NotNone([j \in 1..Len(input) |->
               IF tasks[j].pc = "done" /\ tasks[j].keep
               THEN Some(input[j]) ELSE None])

\* C13: when the pool has run every task of a process call, one of them
\* raised and another passed the filter, process returns, and returns the
\* resources of the tasks that passed.
C13_FailureIsolated ==
    [][ ( /\ mProc # NoProc
          /\ mProc' = NoProc
          /\ \E j \in 1..Len(mProc.input) : mProc.tasks[j].pc = "raised"
          /\ PassingSiblings(mProc.input, mProc.tasks) # << >> ) =>
            /\ mOut'.kind = "returned"
            /\ mOut'.resources = PassingSiblings(mProc.input, mProc.tasks) ]_vars

\* C15 (metric filter): a process call over N > 1 distinct resources whose
\* tasks have all ended without an error has issued fewer than N remote
\* calls.
C15_FewerCallsThanResources ==
    ( /\ mProc # NoProc
      /\ Len(mProc.input) > 1
      /\ \A i, j \in 1..Len(mProc.input) : i # j => mProc.input[i] # mProc.input[j]
      /\ \A j \in 1..Len(mProc.input) : mProc.tasks[j].pc = "done" ) =>
        Cardinality({ j \in 1..Len(mProc.input) : mProc.tasks[j].fetched })
          < Len(mProc.input)

\* C16: the resources a process call returns are the input resources that
\* pass the filter, in input order, whatever the order in which the tasks
\* completed.
C16_StableOrder ==
    (mOut # << >> /\ mOut.kind = "returned") =>
        LET self == MetricsFilterInit(mFilters[mOut.filter])
        IN mOut.resources =
             NotNone([j \in 1..Len(mOut.input) |->
                        IF PassesOpFilter(self, mOut.values[j][1])
                        THEN Some(mOut.input[j]) ELSE None])

\* C16 witness: the task of the second resource completed before the task
\* of the first, both passed, and the result lists the first before the
\* second.
C16_Witness ==
    /\ mOut # << >>
    /\ mOut.kind = "returned"
    /\ mOut.input = <<"r1", "r2">>
    /\ mOut.completed = <<2, 1>>
    /\ mOut.resources = <<"r1", "r2">>

(***************************************************************************)
(* Further claims about the log filter, checked under SpecLogs.            *)
(***************************************************************************)

\* C14: when the 10 attempts on one chunk of several have all raised the
\* rate-limit error, the process call has not raised: it goes on to the
\* other chunks or returns.
C14_ExhaustionIsolated ==
    \A c \in 1..Len(lCalls) :
        ( /\ NumChunks(lCount) > 1
          /\ Len(lCalls[c]) = StopMaxAttemptNumber
          /\ AllEnded(lCalls[c], "TooManyRequests") ) =>
            lPc # "raised"

\* C17: after a chunk's call has returned, each resource of the chunk that
\* has entries among those returned carries exactly the entries with its
\* id, and a resource of the chunk with no such entry carries no logs,
\* whatever the order the entries came in.
C17_LogsById ==
    (lLast # << >> /\ lLast.ok) =>
        \A n \in ChunkFirst(lLast.chunk)..ChunkLast(lLast.chunk, lCount) :
            IF EntriesOf(lLast.entries, n) # << >>
            THEN /\ n \in DOMAIN lAnn
                 /\ lAnn[n][LogsAnnotation][LogCacheKey(lFilter)]
                      = EntriesOf(lLast.entries, n)
            ELSE n \notin DOMAIN lAnn

\* C17 witness: the call for the first chunk returned an entry of the
\* chunk's last resource between two entries of its first resource.
C17_Witness ==
    /\ lLast # << >>
    /\ lLast.ok
    /\ lLast.chunk = 1
    /\ lCount = ChunkSize + 1
    /\ lLast.entries = << LogEntry(1, "stop"), LogEntry(ChunkSize, "start"),
                          LogEntry(1, "start") >>
    /\ lAnn[1][LogsAnnotation][LogCacheKey(lFilter)]
         = << LogEntry(1, "stop"), LogEntry(1, "start") >>
    /\ lAnn[ChunkSize][LogsAnnotation][LogCacheKey(lFilter)]
         = << LogEntry(ChunkSize, "start") >>

(***************************************************************************)
(* The label actions (c7n_gcp/actions/labels.py).                          *)
(***************************************************************************)

\* How many times the clock advances in a behaviour.
MaxTicks == 2

\* The hours the clock advances at a time.
TickHours == 13

\* A list as a value of an action's data.
ListV(l) == [t |-> "list", l |-> l]

\* Whether data.get(k) is truthy: an absent key (None), an empty string,
\* an empty dict and an empty list are not.  The values are strings
\* (StrV), mappings (MapV), lists (ListV) or lookups.
Truthy(data, k) ==
    /\ k \in DOMAIN data
    /\ ~(data[k].t = "str" /\ data[k].s = "")
    /\ ~(data[k].t = "map" /\ DOMAIN data[k].m = {})
    /\ ~(data[k].t = "list" /\ data[k].l = << >>)

\* BaseLabelAction.method_spec['op']
MethodOp == "setLabels"

DEFAULT_TAG == "custodian_status"

\* default_template, as its literal parts and replacement fields.
DefaultTemplate == << "resource_policy-", "{op}", "-", "{action_date}" >>

\* msg_tmpl.format(op=op, action_date=action_date)
RECURSIVE FormatMsg(_, _, _)
FormatMsg(tmpl, op, action_date) ==
    IF tmpl = << >> THEN ""
    ELSE (CASE Head(tmpl) = "{op}" -> op
            [] Head(tmpl) = "{action_date}" -> action_date
            [] OTHER -> Head(tmpl))
         \o FormatMsg(Tail(tmpl), op, action_date)

\* The UTC offset, in hours, of the timezones a spec may name; 'utc' is
\* the default.
TzOffset(tz) == IF tz = "jst" THEN 9 ELSE 0

\* '%Y_%m_%d' for a day counted from 2019-12-01 as day 1, up to the end of
\* January 2020.
DateStr(day) ==
    IF day <= 31 THEN "2019_12_" \o Pad2(day)
    ELSE "2020_01_" \o Pad2(day - 31)

\* A time moved by a number of hours.
PlusHours(t, h) ==
    LET total == (t.day - 1) * 24 + t.hour + h
    IN [day |-> (total \div 24) + 1, hour |-> total % 24, minute |-> t.minute]

\* generate_timestamp(days, hours) at the clock reading now in a timezone
\* with the given offset.  days and hours are None or a number; timedelta
\* does not take None.
GenerateTimestamp(now, offset, days, hours) ==
    LET n == PlusHours(now, offset)
        d == IF days = None \/ hours = None THEN 4 ELSE days[1]
    IN IF hours = None THEN [kind |-> "raise", err |-> "TypeError"]
       ELSE LET action_date == PlusHours(n, d * 24 + hours[1])
            IN [kind |-> "value",
                value |->
                  IF hours[1] > 0
                  THEN DateStr(action_date.day) \o "__"
                         \o Pad2(action_date.hour) \o "_"
                         \o Pad2(action_date.minute)
                  ELSE DateStr(action_date.day) \o "__0_0"]

\* The data of the mark-for-op actions of the behaviours.
MarkData ==
    { EmptyDict,
      [op |-> "stop", days |-> 4],
      [op |-> "stop", days |-> 2],
      [op |-> "delete", hours |-> 5],
      [op |-> "stop", days |-> 1, hours |-> 30],
      [op |-> "delete", label |-> "mark",
       msg |-> << "gc:", "{op}", "@", "{action_date}" >>],
      [tz |-> "jst"],
      [op |-> "no-such-op"] }

\* The keys of the action registry of the resource manager a mark-for-op
\* action is constructed with, or None for an action without a manager.
MarkManagers ==
    { None, Some({"stop", "delete", "label", "unlabel", "mark-for-op"}) }

\* The timezone aliases the specs name; gettz gives a timezone for each.
TzAliases == {"utc", "jst"}

\* The data of the unlabel actions of the behaviours: 'labels' absent,
\* empty or naming keys.
RemoveLabelData ==
    { EmptyDict,
      [labels |-> ListV(<< >>)],
      [labels |-> ListV(<< "env" >>)],
      [labels |-> ListV(<< "owner", "missing" >>)] }

\* A value that is looked up in the resource.
LookupName == [t |-> "lookup", type |-> "resource", key |-> "name"]

\* The data of the label actions of the behaviours: every combination of
\* 'labels', 'label' and 'value' absent, empty or given.
LabelData ==
    { [k \in ks |-> d[k]] :
        ks \in SUBSET {"labels", "label", "value"},
        d \in [ labels : { MapV(EmptyDict), MapV([env |-> "test", team |-> "a"]) },
                label : { StrV(""), StrV("env") },
                value : { StrV(""), StrV("test"), LookupName } ] }

\* LabelDelayedAction.__init__: the attributes derived from the data at
\* the clock reading now ('at' keeps that reading).
LabelDelayedInit(data, manager, now) ==
    LET msg_tmpl == Get(data, "msg", DefaultTemplate)
        op == Get(data, "op", "stop")
        days == Get(data, "days", 0)
        hours == Get(data, "hours", 0)
        action_date == GenerateTimestamp(now, TzOffset(Get(data, "tz", "utc")),
                                         Some(days), Some(hours))
    IN [type |-> "mark-for-op", data |-> data, valid |-> "unknown",
        manager |-> manager, at |-> now,
        label |-> Get(data, "label", DEFAULT_TAG),
        msg |-> FormatMsg(msg_tmpl, op, action_date.value)]

\* A Label action instance.
LabelInit(data) == [type |-> "label", data |-> data, valid |-> "unknown"]

\* A RemoveLabel action instance.
RemoveLabelInit(data) ==
    [type |-> "unlabel", data |-> data, valid |-> "unknown"]

\* Lookup.extract(source, resource): a plain value, or the resource's
\* value at the key of a lookup.
Extract(source, resource) ==
    IF source.t = "lookup" THEN resource[source.key] ELSE source.s

\* A variant of LabelValidateOutcome without the check for both forms.
LabelValidateOutcomeOneCheck(data) ==
    IF ~Truthy(data, "labels") /\ ~(Truthy(data, "label") /\ Truthy(data, "value"))
    THEN Some("FilterValidationError")
    ELSE None

\* Label.validate: the error it raises, or None.
LabelValidateOutcome(data) ==
    IF ~Truthy(data, "labels") /\ ~(Truthy(data, "label") /\ Truthy(data, "value"))
    THEN Some("FilterValidationError")
    ELSE IF Truthy(data, "labels") /\ Truthy(data, "label")
         THEN Some("FilterValidationError")
         ELSE None

\* A variant of RemoveLabelValidateOutcome that only asks for the key.
RemoveLabelValidateOutcomeKeyOnly(data) ==
    IF "labels" \notin DOMAIN data THEN Some("FilterValidationError") ELSE None

\* RemoveLabel.validate: the error it raises, or None.
RemoveLabelValidateOutcome(data) ==
    IF ~Truthy(data, "labels") THEN Some("FilterValidationError") ELSE None

\* A variant of LabelDelayedValidateOutcome that checks the op the
\* constructor defaults to.
LabelDelayedValidateOutcomeDefaultOp(self) ==
    LET op == Get(self.data, "op", "stop")
    IN IF self.manager # None /\ op \notin self.manager[1]
       THEN Some("FilterValidationError")
       ELSE IF Get(self.data, "tz", "utc") \notin TzAliases
            THEN Some("FilterValidationError")
            ELSE None

\* LabelDelayedAction.validate: the error it raises, or None.  op is
\* data.get('op'), None when the spec has no op.
LabelDelayedValidateOutcome(self) ==
    LET op == IF "op" \in DOMAIN self.data THEN Some(self.data.op) ELSE None
    IN IF self.manager # None /\ (op = None \/ op[1] \notin self.manager[1])
       THEN Some("FilterValidationError")
       ELSE IF Get(self.data, "tz", "utc") \notin TzAliases
            THEN Some("FilterValidationError")
            ELSE None

\* A variant of GetLabelsToAdd whose mark-for-op message is formatted when
\* the labels are asked for.
GetLabelsToAddRecomputed(self, resource) ==
    IF self.type = "mark-for-op"
    THEN Some(self.label :> LabelDelayedInit(self.data, self.manager, lbNow.t).msg)
    ELSE IF self.type = "unlabel" THEN None
    ELSE IF Truthy(self.data, "labels") THEN Some(self.data.labels.m)
    ELSE Some(Extract(self.data.label, resource)
                :> Extract(self.data.value, resource))

\* get_labels_to_add: of a mark-for-op action, of a label action, and
\* the base method otherwise.
GetLabelsToAdd(self, resource) ==
    IF self.type = "mark-for-op" THEN Some(self.label :> self.msg)
    ELSE IF self.type = "unlabel" THEN None
    ELSE IF Truthy(self.data, "labels") THEN Some(self.data.labels.m)
    ELSE Some(Extract(self.data.label, resource)
                :> Extract(self.data.value, resource))

\* get_labels_to_delete: data.get('labels') of an unlabel action, and the
\* base method otherwise.
GetLabelsToDelete(self, resource) ==
    IF self.type = "unlabel" /\ "labels" \in DOMAIN self.data
    THEN Some(self.data.labels.l)
    ELSE None

\* dict.update
Update(d, e) == [k \in DOMAIN d \cup DOMAIN e |-> IF k \in DOMAIN e THEN e[k] ELSE d[k]]

\* A variant of MergeLabels that sends the new labels alone.
MergeLabelsNewOnly(current_labels, new_labels, remove_labels) ==
    [ current |-> current_labels,
      result |-> IF new_labels # None THEN new_labels[1] ELSE EmptyDict ]

\* A variant of MergeLabels whose removal filters the labels as they
\* were before the update, so that new labels are not sent.
MergeLabelsRemoveFromOriginal(current_labels, new_labels, remove_labels) ==
    LET updated == IF new_labels # None /\ new_labels[1] # EmptyDict
                   THEN Update(current_labels, new_labels[1])
                   ELSE current_labels
    IN [ current |-> updated,
         result |-> IF remove_labels # None /\ remove_labels[1] # << >>
                    THEN [k \in { x \in DOMAIN current_labels :
                                    \A i \in 1..Len(remove_labels[1]) :
                                        remove_labels[1][i] # x }
                            |-> current_labels[k]]
                    ELSE updated ]

\* A variant of MergeLabels whose removal spares the keys that the
\* update has added.
MergeLabelsRemoveOldOnly(current_labels, new_labels, remove_labels) ==
    LET updated == IF new_labels # None /\ new_labels[1] # EmptyDict
                   THEN Update(current_labels, new_labels[1])
                   ELSE current_labels
    IN [ current |-> updated,
         result |-> IF remove_labels # None /\ remove_labels[1] # << >>
                    THEN [k \in { x \in DOMAIN updated :
                                    \/ x \notin DOMAIN current_labels
                                    \/ \A i \in 1..Len(remove_labels[1]) :
                                          remove_labels[1][i] # x }
                            |-> updated[k]]
                    ELSE updated ]

\* _merge_labels: the dict it returns, and current_labels as the call
\* leaves it (result is current_labels itself, which update changes).
MergeLabels(current_labels, new_labels, remove_labels) ==
    LET updated == IF new_labels # None /\ new_labels[1] # EmptyDict
                   THEN Update(current_labels, new_labels[1])
                   ELSE current_labels
    IN [ current |-> updated,
         result |-> IF remove_labels # None /\ remove_labels[1] # << >>
                    THEN [k \in { x \in DOMAIN updated :
                                    \A i \in 1..Len(remove_labels[1]) :
                                        remove_labels[1][i] # x }
                            |-> updated[k]]
                    ELSE updated ]

\* get_resource_params: the request parameters, and the resource as the
\* call leaves it.  _get_current_labels hands out the resource's own
\* 'labels' dict when it has one.
GetResourceParams(self, resource) ==
    LET current_labels == Get(resource, "labels", EmptyDict)
        merged == MergeLabels(current_labels, GetLabelsToAdd(self, resource),
                              GetLabelsToDelete(self, resource))
    IN [ params |-> [op |-> MethodOp, resource |-> resource.name,
                     body |-> [labels |-> merged.result,
                               labelFingerprint |-> resource.labelFingerprint]],
         resource |-> IF "labels" \in DOMAIN resource
                      THEN [resource EXCEPT !.labels = merged.current]
                      ELSE resource ]

\* The resource records the label actions are handed.
LabelResources ==
    [ r1 |-> [name |-> "i-1", labelFingerprint |-> "fp1",
              labels |-> [env |-> "prod", custodian_status |-> "old",
                          owner |-> "bob"]],
      r2 |-> [name |-> "i-2", labelFingerprint |-> "fp2"] ]

\* The arguments of the direct calls of _merge_labels: the current labels,
\* the labels to add (None, empty or given) and the keys to delete (None,
\* empty or given).
MergeCurrents ==
    { EmptyDict, [env |-> "prod"], [env |-> "prod", owner |-> "bob"] }

MergeAdds ==
    { None, Some(EmptyDict), Some([env |-> "test"]), Some([team |-> "a"]),
      Some([env |-> "test", team |-> "a"]) }

MergeDeletes ==
    { None, Some(<< >>), Some(<< "env" >>), Some(<< "team" >>),
      Some(<< "owner", "team" >>) }

\* The clock readings at the start of a behaviour.
LabelClocks ==
    { [day |-> 27, hour |-> 3, minute |-> 5],
      [day |-> 28, hour |-> 20, minute |-> 40] }

InitLabelVars ==
    /\ lbNow \in [t : LabelClocks, ticks : {0}]
    /\ lbAction = << >>
    /\ lbRes = LabelResources
    /\ lbOut = << >>

\* Time passes.
ClockAdvance ==
    /\ lbNow.ticks < MaxTicks
    /\ lbNow' = [t |-> PlusHours(lbNow.t, TickHours), ticks |-> lbNow.ticks + 1]
    /\ UNCHANGED <<lbAction, lbRes, lbOut, component, envVars, handlerVars, actionVars, metricVars,
                   keyVars, logVars>>

\* A mark-for-op action is constructed from its data.
LabelDelayedConstruct ==
    \E data \in MarkData, manager \in MarkManagers :
        /\ lbAction = << >>
        /\ lbAction' = LabelDelayedInit(data, manager, lbNow.t)
        /\ lbOut' = [op |-> "__init__", now |-> lbNow.t]
        /\ UNCHANGED <<lbNow, lbRes, component, envVars, handlerVars, actionVars, metricVars,
                       keyVars, logVars>>

\* A label action is constructed from its data.
LabelConstruct ==
    \E data \in LabelData :
        /\ lbAction = << >>
        /\ lbAction' = LabelInit(data)
        /\ lbOut' = [op |-> "__init__", now |-> lbNow.t]
        /\ UNCHANGED <<lbNow, lbRes, component, envVars, handlerVars, actionVars, metricVars,
                       keyVars, logVars>>

\* Label.validate
LabelValidate ==
    /\ lbAction # << >>
    /\ lbAction.type = "label"
    /\ lbAction.valid = "unknown"
    /\ lbAction' = [lbAction EXCEPT !.valid =
                      IF LabelValidateOutcome(lbAction.data) = None
                      THEN "ok" ELSE "rejected"]
    /\ lbOut' = [op |-> "validate",
                 raised |-> LabelValidateOutcome(lbAction.data)]
    /\ UNCHANGED <<lbNow, lbRes, component, envVars, handlerVars, actionVars, metricVars,
                   keyVars, logVars>>

\* A RemoveLabel action is constructed from its data.
RemoveLabelConstruct ==
    \E data \in RemoveLabelData :
        /\ lbAction = << >>
        /\ lbAction' = RemoveLabelInit(data)
        /\ lbOut' = [op |-> "__init__", now |-> lbNow.t]
        /\ UNCHANGED <<lbNow, lbRes, component, envVars, handlerVars, actionVars, metricVars,
                       keyVars, logVars>>

\* RemoveLabel.validate
RemoveLabelValidate ==
    /\ lbAction # << >>
    /\ lbAction.type = "unlabel"
    /\ lbAction.valid = "unknown"
    /\ lbAction' = [lbAction EXCEPT !.valid =
                      IF RemoveLabelValidateOutcome(lbAction.data) = None
                      THEN "ok" ELSE "rejected"]
    /\ lbOut' = [op |-> "validate",
                 raised |-> RemoveLabelValidateOutcome(lbAction.data)]
    /\ UNCHANGED <<lbNow, lbRes, component, envVars, handlerVars, actionVars, metricVars,
                   keyVars, logVars>>

\* LabelDelayedAction.validate
LabelDelayedValidate ==
    /\ lbAction # << >>
    /\ lbAction.type = "mark-for-op"
    /\ lbAction.valid = "unknown"
    /\ lbAction' = [lbAction EXCEPT !.valid =
                      IF LabelDelayedValidateOutcome(lbAction) = None
                      THEN "ok" ELSE "rejected"]
    /\ lbOut' = [op |-> "validate",
                 raised |-> LabelDelayedValidateOutcome(lbAction)]
    /\ UNCHANGED <<lbNow, lbRes, component, envVars, handlerVars, actionVars, metricVars,
                   keyVars, logVars>>

\* _merge_labels called on its own.
MergeLabelsCall ==
    \E c \in MergeCurrents, a \in MergeAdds, r \in MergeDeletes :
        /\ lbAction = << >>
        /\ lbOut' = [op |-> "_merge_labels", current_labels |-> c,
                     new_labels |-> a, remove_labels |-> r,
                     result |-> MergeLabels(c, a, r).result]
        /\ UNCHANGED <<lbNow, lbAction, lbRes, component, envVars, handlerVars, actionVars,
                       metricVars, keyVars, logVars>>

\* get_resource_params on a resource, of a mark-for-op action that validate
\* did not reject or of a label or unlabel action that passed validate.
LabelGetResourceParams ==
    \E r \in DOMAIN lbRes :
        LET call == GetResourceParams(lbAction, lbRes[r])
        IN /\ lbAction # << >>
           /\ \/ lbAction.type = "mark-for-op" /\ lbAction.valid # "rejected"
              \/ lbAction.valid = "ok"
           /\ lbOut' = [op |-> "get_resource_params", ref |-> r,
                        before |-> lbRes[r], params |-> call.params]
           /\ lbRes' = [lbRes EXCEPT ![r] = call.resource]
           /\ UNCHANGED <<lbNow, lbAction, component, envVars, handlerVars, actionVars, metricVars,
                          keyVars, logVars>>

NextLabels ==
    \/ ClockAdvance
    \/ LabelDelayedConstruct
    \/ LabelConstruct
    \/ LabelValidate
    \/ RemoveLabelConstruct
    \/ RemoveLabelValidate
    \/ LabelDelayedValidate
    \/ MergeLabelsCall
    \/ LabelGetResourceParams

InitLabels ==
    /\ component = "labels"
    /\ InitLabelVars
    /\ IdleHandlerVars
    /\ IdleEnvVars
    /\ InitActionVars
    /\ IdleMetricVars
    /\ IdleKeyVars
    /\ IdleLogVars

SpecLabels == InitLabels /\ [][NextLabels]_vars

(***************************************************************************)
(* Claims about the label actions, checked under SpecLabels.               *)
(***************************************************************************)

\* The timestamp of a time the given number of days after the reading
\* 'at', in the timezone of the data, with no hours asked for.
DaysAhead(data, at, days) ==
    DateStr(PlusHours(at, TzOffset(Get(data, "tz", "utc")) + 24 * days).day)
      \o "__0_0"

\* C18: a mark-for-op action whose data gives neither 'days' nor 'hours'
\* carries, as constructed, the date 4 days after the clock reading at
\* construction.
C18_DefaultFourDays ==
    ( /\ lbAction # << >>
      /\ lbAction.type = "mark-for-op"
      /\ "days" \notin DOMAIN lbAction.data
      /\ "hours" \notin DOMAIN lbAction.data ) =>
        lbAction.msg =
          FormatMsg(Get(lbAction.data, "msg", DefaultTemplate),
                    Get(lbAction.data, "op", "stop"),
                    DaysAhead(lbAction.data, lbAction.at, 4))

\* C19: the request a mark-for-op action computes for a resource is a
\* setLabels request whose labels are the resource's labels with one label
\* set: the configured label name (default 'custodian_status') with the
\* formatted message, 'resource_policy-<op>-<date>' by default; every
\* other label keeps its value.
C19_MarkOnlyAddsLabel ==
    ( /\ lbOut # << >>
      /\ lbOut.op = "get_resource_params"
      /\ lbAction.type = "mark-for-op" ) =>
        LET data == lbAction.data
            old == Get(lbOut.before, "labels", EmptyDict)
            new == lbOut.params.body.labels
            name == Get(data, "label", "custodian_status")
            date == GenerateTimestamp(lbAction.at,
                                      TzOffset(Get(data, "tz", "utc")),
                                      Some(Get(data, "days", 0)),
                                      Some(Get(data, "hours", 0))).value
        IN /\ lbOut.params.op = "setLabels"
           /\ DOMAIN new = DOMAIN old \cup {name}
           /\ \A k \in DOMAIN old \ {name} : new[k] = old[k]
           /\ "msg" \notin DOMAIN data =>
                new[name] = "resource_policy-" \o Get(data, "op", "stop")
                              \o "-" \o date
           /\ "msg" \in DOMAIN data =>
                new[name] = FormatMsg(data.msg, Get(data, "op", "stop"), date)

\* C19 witness: a mark-for-op action with op 'stop' and 2 days, built on
\* 2019-12-27, computed the request for a resource that has three labels,
\* one of them an older custodian_status.
C19_Witness ==
    /\ lbOut # << >>
    /\ lbOut.op = "get_resource_params"
    /\ lbAction.type = "mark-for-op"
    /\ lbAction.data = [op |-> "stop", days |-> 2]
    /\ lbOut.before.labels =
         [env |-> "prod", custodian_status |-> "old", owner |-> "bob"]
    /\ lbOut.params.body.labels =
         [env |-> "prod", owner |-> "bob",
          custodian_status |-> "resource_policy-stop-2019_12_29__0_0"]

\* C20: Label.validate returns without raising exactly when the data
\* gives 'labels' (non-empty) and no 'label', or gives 'label' and 'value'
\* and no 'labels'; otherwise it raises FilterValidationError.  A key with
\* an empty value counts as not given.
C20_LabelValidate ==
    (lbOut # << >> /\ lbOut.op = "validate" /\ lbAction.type = "label") =>
        LET data == lbAction.data
            accepted ==
              \/ Truthy(data, "labels") /\ ~Truthy(data, "label")
              \/ /\ Truthy(data, "label")
                 /\ Truthy(data, "value")
                 /\ ~Truthy(data, "labels")
        IN /\ accepted => lbOut.raised = None
           /\ ~accepted => lbOut.raised = Some("FilterValidationError")

\* C20 witness: a spec with both 'labels' and 'label' was rejected.
C20_Witness ==
    /\ lbOut # << >>
    /\ lbOut.op = "validate"
    /\ lbAction.data = [labels |-> MapV([env |-> "test", team |-> "a"]),
                        label |-> StrV("env")]
    /\ lbOut.raised = Some("FilterValidationError")

\* C21: RemoveLabel.validate raises FilterValidationError for an unlabel
\* spec whose 'labels' is missing or is an empty list, and returns for a
\* spec with a non-empty 'labels' list.
C21_RemoveLabelValidate ==
    (lbAction # << >> /\ lbAction.type = "unlabel"
       /\ lbOut # << >> /\ lbOut.op = "validate")
    => /\ lbOut.raised = Some("FilterValidationError")
          <=> ("labels" \notin DOMAIN lbAction.data
                 \/ lbAction.data.labels.l = << >>)
       /\ lbOut.raised = None
          <=> ("labels" \in DOMAIN lbAction.data
                 /\ Len(lbAction.data.labels.l) > 0)

\* validate has rejected an unlabel spec with an empty 'labels' list.
C21_Witness ==
    /\ lbAction # << >> /\ lbAction.type = "unlabel"
    /\ lbOut # << >> /\ lbOut.op = "validate"
    /\ "labels" \in DOMAIN lbAction.data
    /\ lbAction.data.labels.l = << >>
    /\ lbOut.raised = Some("FilterValidationError")

\* C22: validate of a mark-for-op action that has a resource manager
\* returns only when the spec gives an 'op' that is a key of the manager's
\* action registry; a spec with no 'op' and a spec with an unregistered
\* 'op' are both rejected with FilterValidationError.
C22_MarkValidateNeedsOp ==
    (lbAction # << >> /\ lbAction.type = "mark-for-op"
       /\ lbAction.manager # None
       /\ lbOut # << >> /\ lbOut.op = "validate")
    => /\ lbOut.raised = None
          => ("op" \in DOMAIN lbAction.data
                /\ lbAction.data.op \in lbAction.manager[1])
       /\ ("op" \notin DOMAIN lbAction.data
             \/ lbAction.data.op \notin lbAction.manager[1])
          => lbOut.raised = Some("FilterValidationError")

\* validate has rejected a mark-for-op spec without 'op' of an action
\* with a manager whose registry has the constructor's default 'stop'.
C22_Witness ==
    /\ lbAction # << >> /\ lbAction.type = "mark-for-op"
    /\ lbAction.manager # None /\ "stop" \in lbAction.manager[1]
    /\ lbOut # << >> /\ lbOut.op = "validate"
    /\ "op" \notin DOMAIN lbAction.data
    /\ lbOut.raised = Some("FilterValidationError")

\* The labels to add of a call, as a dict, and the keys to delete, as a
\* set.
AddsOf(new_labels) == IF new_labels = None THEN EmptyDict ELSE new_labels[1]

DeletesOf(remove_labels) ==
    IF remove_labels = None THEN {}
    ELSE { remove_labels[1][i] : i \in 1..Len(remove_labels[1]) }

\* C27: _merge_labels returns the current labels overridden by the labels
\* to add, minus every key to delete: a key in both the add and the delete
\* set is absent, and a key in neither keeps its current value.
C27_MergeLabels ==
    (lbOut # << >> /\ lbOut.op = "_merge_labels")
    => LET c == lbOut.current_labels
           a == AddsOf(lbOut.new_labels)
           r == DeletesOf(lbOut.remove_labels)
       IN /\ DOMAIN lbOut.result = (DOMAIN c \cup DOMAIN a) \ r
          /\ \A k \in DOMAIN lbOut.result :
                lbOut.result[k] = IF k \in DOMAIN a THEN a[k] ELSE c[k]

\* A call with a key in both the add and the delete set, a key that is
\* added and sent, and a key in neither set.
C27_Witness ==
    /\ lbOut # << >> /\ lbOut.op = "_merge_labels"
    /\ LET c == lbOut.current_labels
           a == AddsOf(lbOut.new_labels)
           r == DeletesOf(lbOut.remove_labels)
       IN /\ (DOMAIN a \cap r) \ DOMAIN c # {}
          /\ (DOMAIN a \ r) \cap DOMAIN lbOut.result # {}
          /\ \E k \in DOMAIN c \ (DOMAIN a \cup r) : lbOut.result[k] = c[k]

\* C28: label mutations are idempotent: merging the same add and delete
\* sets into the result of a merge gives that result again, and an action
\* applied to a resource whose labels are what its first application sent
\* sends the same labels.
C28_Idempotent ==
    /\ (lbOut # << >> /\ lbOut.op = "_merge_labels")
       => MergeLabels(lbOut.result, lbOut.new_labels,
                      lbOut.remove_labels).result = lbOut.result
    /\ (lbOut # << >> /\ lbOut.op = "get_resource_params")
       => GetResourceParams(lbAction,
                            SetItem(lbOut.before, "labels",
                                    lbOut.params.body.labels)
                           ).params.body.labels
          = lbOut.params.body.labels

\* A merge that both added and deleted, one of the deleted keys being an
\* added key that the current labels did not have.
C28_Witness ==
    /\ lbOut # << >> /\ lbOut.op = "_merge_labels"
    /\ (DOMAIN AddsOf(lbOut.new_labels) \cap DeletesOf(lbOut.remove_labels))
         \ DOMAIN lbOut.current_labels # {}
    /\ lbOut.result # lbOut.current_labels
    /\ lbOut.result # EmptyDict

\* C29: get_resource_params leaves the 'labels' of the resource it is
\* handed as they were, whatever the action.
C29_ResourceUntouched ==
    (lbOut # << >> /\ lbOut.op = "get_resource_params")
    => lbRes[lbOut.ref] = lbOut.before

\* C24: a process call that repeats the call before it (same filter
\* instance, same input) on the records as that call left them, the
\* remote data being the same for every fetch of a record, returns the
\* same resources, also when it is served from the annotations.
C24_RepeatSameSubset ==
    (/\ mOut # << >> /\ mOut.kind = "returned"
     /\ mPrev # << >>
     /\ \A i, j \in 1..Len(mOut.input) :
           mOut.input[i] = mOut.input[j] => mPrev.values[i] = mPrev.values[j])
    => mOut.resources = mPrev.resources

\* A repeated call was served from the annotations alone and kept one of
\* its two records, as the call before it.
C24_Witness ==
    /\ mOut # << >> /\ mOut.kind = "returned"
    /\ mPrev # << >>
    /\ mOut.input = <<"r1", "r2">>
    /\ mPrev.values = << <<Some(3)>>, <<None>> >>
    /\ mOut.values = mPrev.values
    /\ Len(mOut.resources) = 1
    /\ \A r \in Refs : \A k \in DOMAIN mHist[r] : mHist[r][k].calls <= 1

\* C26: the tasks of a process call work on disjoint records, so no
\* record is fetched by two tasks of one call, also when the input names
\* a record more than once.
C26_NoDuplicateFetch ==
    \A i, j \in 1..Len(mProc.input) :
        (i # j /\ mProc.input[i] = mProc.input[j])
        => ~(mProc.tasks[i].fetched /\ mProc.tasks[j].fetched)

(***************************************************************************)
(* The two annotating filters together: a behaviour is one of the metric   *)
(* filter or one of the logs filter.                                       *)
(***************************************************************************)

InitFilters == InitMetrics \/ InitLogs

NextFilters ==
    \/ component = "metrics" /\ NextMetrics
    \/ component = "logs" /\ NextLogs

SpecFilters == InitFilters /\ [][NextFilters]_vars

\* The keys get_annotation_prefix gives the two filters.
ReservedKeys == { MetricsAnnotation, LogsAnnotation }

\* Whether a record has every field of the record as fetched, with its
\* value, and nothing else but annotations.
OnlyAnnotated(resource, fetched) ==
    /\ DOMAIN resource \ ReservedKeys = DOMAIN fetched
    /\ \A k \in DOMAIN fetched : resource[k] = fetched[k]

\* C25: the metric and logs filters change a resource only under the
\* annotation keys: every field of the record as fetched keeps its value,
\* no record is added or removed, and what process hands on is made of
\* the resources it was handed.
C25_OnlyAnnotations ==
    /\ component = "metrics" =>
         /\ DOMAIN mRes = Refs
         /\ \A r \in Refs : OnlyAnnotated(mRes[r], FetchedResource(r))
         /\ (mOut # << >> /\ mOut.kind = "returned") =>
               \A n \in 1..Len(mOut.resources) :
                  \E j \in 1..Len(mOut.input) :
                     mOut.resources[n] = mOut.input[j]
    /\ component = "logs" =>
         /\ DOMAIN lAnn \subseteq 1..lCount
         /\ \A id \in DOMAIN lAnn : OnlyAnnotated(lAnn[id], LogResource(id))
         /\ (lOut # << >> /\ lOut.kind = "returned") =>
               lOut.results = [c \in 1..NumChunks(lCount) |-> c]

\* A metric filter call has written a fetched value to a record and
\* returned.
C25_Witness ==
    /\ component = "metrics"
    /\ mOut # << >> /\ mOut.kind = "returned"
    /\ \E r \in Refs :
         /\ MetricsAnnotation \in DOMAIN mRes[r]
         /\ \E k \in DOMAIN mRes[r][MetricsAnnotation] :
               mRes[r][MetricsAnnotation][k].value = Some(3)

(***************************************************************************)
(* StackdriverLogFilter.validate.                                          *)
(***************************************************************************)

\* The data of the filters handed to validate: 'filter' absent, empty or
\* given, 'filter_days' absent, negative, zero or positive.
LogValidateFilters ==
    { "", "jsonPayload.event_subtype:compute.instances.stop",
      "jsonPayload.event_subtype:compute.instances.start",
      "jsonPayload.event_subtype:compute.instances.guestTerminate" }

LogValidateDays == { -30, -7, -1, 0, 1, 7, 30, 90, 365 }

LogValidateData ==
    { [k \in ks |-> d[k]] :
        ks \in SUBSET {"filter", "filter_days"},
        d \in [filter : LogValidateFilters, filter_days : LogValidateDays] }

\* validate: the errors it may raise, or None.  data.get('filter_days') is
\* None when the key is not given, and None < 0 raises TypeError on
\* Python 3 and is True on Python 2.  ValueFilter.validate, called last,
\* is taken to return.
LogValidateOutcomes(data) ==
    IF "filter_days" \notin DOMAIN data
    THEN { Some("TypeError"), Some("FilterValidationError") }
    ELSE IF data.filter_days < 0
         THEN { Some("FilterValidationError") }
         ELSE IF "filter" \notin DOMAIN data \/ data.filter = ""
              THEN { Some("FilterValidationError") }
              ELSE { None }

InitLogValidateVars ==
    /\ lFilter \in LogValidateData
    /\ lCount = 0
    /\ lPc = "new"
    /\ lChunk = 0
    /\ lAttempt = 0
    /\ lResults = << >>
    /\ lAnn = << >>
    /\ lLast = << >>
    /\ lOut = << >>
    /\ lCalls = << >>

\* validate is called on a filter that was constructed from its data.
LogValidate ==
    \E raised \in LogValidateOutcomes(lFilter) :
        /\ lPc = "new"
        /\ lPc' = "validated"
        /\ lOut' = [kind |-> "validate", raised |-> raised]
        /\ UNCHANGED <<lFilter, lCount, lChunk, lAttempt, lResults, lAnn,
                       lLast, lCalls, component, envVars, handlerVars, labelVars, actionVars,
                       metricVars, keyVars>>

NextLogValidate == LogValidate

InitLogValidate ==
    /\ component = "logvalidate"
    /\ InitLogValidateVars
    /\ InitActionVars
    /\ IdleMetricVars
    /\ IdleKeyVars
    /\ IdleLabelVars
    /\ IdleHandlerVars
    /\ IdleEnvVars

SpecLogValidate == InitLogValidate /\ [][NextLogValidate]_vars

\* C30: validate returns for a stackdriver-logs spec that gives a 'filter'
\* and leaves 'filter_days' out.
C30_OmittedDaysPass ==
    (/\ lPc = "validated"
     /\ "filter_days" \notin DOMAIN lFilter
     /\ "filter" \in DOMAIN lFilter /\ lFilter.filter # "")
    => lOut.raised = None

(***************************************************************************)
(* The function handler (handler.py): run, its module globals and the      *)
(* policies of config.json.                                                *)
(***************************************************************************)

\* How many times run is invoked in a behaviour.
MaxInvocations == 2

\* How many policies config.json has at most.
MaxPolicies == 2

\* A policy of config.json: its name, whether its validate returns, and
\* the output_dir of its mode's execution-options, if any.
HandlerPolicy(name, valid, output_dir) ==
    [name |-> name, valid |-> valid, output_dir |-> output_dir]

\* The contents of config.json: no 'policies', or a list of none to
\* MaxPolicies policies, named p1, p2, ... in order.
HandlerConfigs ==
    { [version |-> 1] }
    \cup { [policies |-> [i \in 1..Len(ps) |->
                            HandlerPolicy("p" \o ToString(i), ps[i].valid,
                                          ps[i].output_dir)]] :
             ps \in SeqsUpTo([valid : BOOLEAN,
                              output_dir : {None, Some("/out")}],
                             0, MaxPolicies) }

\* get_tmp_output_dir
GetTmpOutputDir == "/tmp/uuid4"

\* No invocation of run is running.
HandlerIdle == [pc |-> "idle", i |-> 0, calls |-> << >>]

InitHandlerVars ==
    /\ hFile \in HandlerConfigs
    /\ hData = None
    /\ hConfig = None
    /\ hRun = HandlerIdle
    /\ hOut = << >>
    /\ hCount = [runs |-> 0, reads |-> 0, inits |-> 0]

\* A variant of ColdStart that builds the execution options without
\* keeping them in the module global.
ColdStartConfigNotKept(file) ==
    [policy_data |-> Some(file), policy_config |-> None,
     raised |-> IF "policies" \notin DOMAIN file THEN Some("KeyError")
                ELSE IF file.policies = << >> THEN Some("IndexError")
                ELSE None]

\* The cold-start initialisation of run, when policy_config is None:
\* the globals as it leaves them and the error it raises, if any.
\* policy_data['policies'][0] raises KeyError without 'policies' and
\* IndexError for an empty list, after policy_data was assigned.
ColdStart(file) ==
    IF "policies" \notin DOMAIN file
    THEN [policy_data |-> Some(file), policy_config |-> None,
          raised |-> Some("KeyError")]
    ELSE IF file.policies = << >>
         THEN [policy_data |-> Some(file), policy_config |-> None,
               raised |-> Some("IndexError")]
         ELSE [policy_data |-> Some(file),
               policy_config |->
                 Some([output_dir |->
                         IF file.policies[1].output_dir = None
                         THEN GetTmpOutputDir
                         ELSE file.policies[1].output_dir[1]]),
               raised |-> None]

\* not policy_data or not policy_data.get('policies')
InvalidPolicyConfig(policy_data) ==
    \/ policy_data = None
    \/ DOMAIN policy_data[1] = {}
    \/ "policies" \notin DOMAIN policy_data[1]
    \/ policy_data[1].policies = << >>

\* run is invoked: the cold-start initialisation when policy_config is
\* None, the check of the policy data, and the policy collection.
HandlerRun ==
    LET cold == hConfig = None
        init == IF cold THEN ColdStart(hFile)
                ELSE [policy_data |-> hData, policy_config |-> hConfig,
                      raised |-> None]
        count == [hCount EXCEPT
                    !.runs = @ + 1,
                    !.reads = IF cold THEN @ + 1 ELSE @,
                    !.inits = IF cold /\ init.raised = None THEN @ + 1 ELSE @]
    IN /\ hRun.pc = "idle"
       /\ hCount.runs < MaxInvocations
       /\ hData' = init.policy_data
       /\ hConfig' = init.policy_config
       /\ hCount' = count
       /\ IF init.raised # None
          THEN /\ hOut' = [kind |-> "raised", err |-> init.raised[1],
                           calls |-> << >>]
               /\ UNCHANGED hRun
          ELSE IF InvalidPolicyConfig(init.policy_data)
               THEN /\ hOut' = [kind |-> "returned", value |-> FALSE,
                                calls |-> << >>]
                    /\ UNCHANGED hRun
               ELSE /\ hRun' = [pc |-> "validate", i |-> 1, calls |-> << >>]
                    /\ hOut' = << >>
       /\ UNCHANGED <<hFile, component, envVars, actionVars, metricVars, keyVars,
                      logVars, labelVars>>

\* The policy the loop of run is at.
HandlerCurrent == hData[1].policies[hRun.i]

\* p.validate() of the loop's policy: it returns, or its error ends run.
HandlerValidate ==
    /\ hRun.pc = "validate"
    /\ IF HandlerCurrent.valid
       THEN /\ hRun' = [hRun EXCEPT !.pc = "push",
                          !.calls = Append(@, <<"validate", HandlerCurrent.name>>)]
            /\ UNCHANGED hOut
       ELSE /\ hOut' = [kind |-> "raised", err |-> "PolicyValidationError",
                        calls |-> Append(hRun.calls,
                                         <<"validate", HandlerCurrent.name>>)]
            /\ hRun' = HandlerIdle
    /\ UNCHANGED <<hFile, hData, hConfig, hCount, component, envVars, actionVars,
                   metricVars, keyVars, logVars, labelVars>>

\* p.push(event, context) of the loop's policy; after the last policy run
\* returns True.
HandlerPush ==
    LET calls == Append(hRun.calls, <<"push", HandlerCurrent.name>>)
    IN /\ hRun.pc = "push"
       /\ IF hRun.i < Len(hData[1].policies)
          THEN /\ hRun' = [pc |-> "validate", i |-> hRun.i + 1, calls |-> calls]
               /\ UNCHANGED hOut
          ELSE /\ hOut' = [kind |-> "returned", value |-> TRUE, calls |-> calls]
               /\ hRun' = HandlerIdle
       /\ UNCHANGED <<hFile, hData, hConfig, hCount, component, envVars, actionVars,
                      metricVars, keyVars, logVars, labelVars>>

NextHandler ==
    \/ HandlerRun
    \/ HandlerValidate
    \/ HandlerPush

InitHandler ==
    /\ component = "handler"
    /\ InitHandlerVars
    /\ IdleEnvVars
    /\ InitActionVars
    /\ IdleMetricVars
    /\ IdleKeyVars
    /\ IdleLogVars
    /\ IdleLabelVars

SpecHandler == InitHandler /\ [][NextHandler]_vars

\* C23: an invocation of run that a policy's validate ended has pushed no
\* policy.
C23_ValidationBlocksAll ==
    (hOut # << >> /\ hOut.kind = "raised"
       /\ hOut.err = "PolicyValidationError")
    => \A n \in 1..Len(hOut.calls) : hOut.calls[n][1] # "push"

\* C31: once an invocation of run has completed the cold-start
\* initialisation, no invocation reads config.json or builds the options
\* again: policy_data and policy_config stay what they are, so the
\* initialisation completes at most once.
C31_ColdStartOnce ==
    [][(hCount # << >> /\ hCount.inits >= 1)
       => /\ hCount'.reads = hCount.reads
          /\ hCount'.inits = 1
          /\ hData' = hData
          /\ hConfig' = hConfig]_vars

\* A second invocation has begun after the first completed the
\* initialisation, and config.json was read once.
C31_Witness ==
    /\ hCount # << >>
    /\ hCount.runs = 2
    /\ hCount.inits = 1
    /\ hCount.reads = 1
    /\ hConfig # None

\* C32: run on a config.json without policies ('policies' missing or
\* empty) returns False and runs no policy, and does not raise.
C32_NoPoliciesReturnsFalse ==
    (/\ hOut # << >>
     /\ hFile # << >>
     /\ "policies" \notin DOMAIN hFile \/ hFile.policies = << >>)
    => /\ hOut.kind = "returned"
       /\ hOut.value = FALSE
       /\ hOut.calls = << >>

\* Whether a response has more than one time series, or more than one
\* point in its first series.
TooMuchData(metrics_data) ==
    /\ metrics_data.present
    /\ \/ Len(metrics_data.timeSeries) > 1
       \/ /\ Len(metrics_data.timeSeries) = 1
          /\ Len(metrics_data.timeSeries[1]) > 1

\* C34: a response with more than one time series, or more than one
\* point in its first series, is written to no resource's annotations.
C34_TooMuchDataNotCached ==
    mRes # << >> =>
        \A r \in Refs :
            MetricsAnnotation \in DOMAIN mRes[r] =>
                \A k \in DOMAIN mRes[r][MetricsAnnotation] :
                    ~TooMuchData(mRes[r][MetricsAnnotation][k].metrics_data)

\* The label value of a mark-for-op action with the given data, its date
\* taken at a clock reading in the timezone the data names.
MarkValueAt(data, at) ==
    FormatMsg(Get(data, "msg", DefaultTemplate),
              Get(data, "op", "stop"),
              GenerateTimestamp(at, TzOffset(Get(data, "tz", "utc")),
                                Some(Get(data, "days", 0)),
                                Some(Get(data, "hours", 0))).value)

\* C35: every resource a mark-for-op action processes is sent, under the
\* action's label, the value whose date was computed at the action's
\* construction in the timezone of its data, however far the clock has
\* moved since.
C35_DateFixedAtConstruction ==
    (lbOut # << >> /\ lbOut.op = "get_resource_params"
       /\ lbAction.type = "mark-for-op")
    => lbOut.params.body.labels[lbAction.label]
       = MarkValueAt(lbAction.data, lbAction.at)

\* An action with tz 'jst', constructed on 2019-12-28 at 20:40 UTC, has
\* processed a resource two clock advances later, when the date computed
\* anew would be another, and sent the date of its construction in JST.
C35_Witness ==
    /\ lbOut # << >> /\ lbOut.op = "get_resource_params"
    /\ lbAction.type = "mark-for-op"
    /\ lbAction.data = [tz |-> "jst"]
    /\ lbAction.at = [day |-> 28, hour |-> 20, minute |-> 40]
    /\ lbNow.t # lbAction.at
    /\ MarkValueAt(lbAction.data, lbNow.t) # MarkValueAt(lbAction.data, lbAction.at)
    /\ lbOut.params.body.labels[lbAction.label]
         = "resource_policy-stop-2019_12_29__0_0"

(***************************************************************************)
(* The environ context manager (c7n_org/utils.py) and the process          *)
(* environment.                                                            *)
(***************************************************************************)

\* How many steps the block of a with statement takes on the environment.
MaxBlockSteps == 2

EnvKeys == { "AWS_PROFILE", "AWS_REGION" }

EnvValues == { "a", "b" }

\* The dicts from some of the keys to values.
EnvDicts == UNION { [ks -> EnvValues] : ks \in SUBSET EnvKeys }

\* No with statement has been entered.
EnvironOutside == [pc |-> "outside", kw |-> EmptyDict, current_env |-> EmptyDict,
                   steps |-> 0, ended |-> << >>]

InitEnvVars ==
    /\ eEnv \in EnvDicts
    /\ eCtx = EnvironOutside
    /\ eCache = "used"

\* del os.environ[k] for the keys in turn: the environment after the
\* deletions, and the error of the first key that is not set.
RECURSIVE DeleteKeys(_, _)
DeleteKeys(env, keys) ==
    IF keys = << >> THEN [env |-> env, raised |-> None]
    ELSE IF Head(keys) \notin DOMAIN env
         THEN [env |-> env, raised |-> Some("KeyError")]
         ELSE DeleteKeys([k \in DOMAIN env \ {Head(keys)} |-> env[k]],
                         Tail(keys))

\* The finally clause of environ: the keys of kw are deleted in their
\* order, os.environ is updated with current_env and the session cache is
\* reset; a deletion that raises ends the clause.
EnvironFinally(env, keys, current_env, cache) ==
    LET deleted == DeleteKeys(env, keys)
    IN IF deleted.raised # None
       THEN [env |-> deleted.env, cache |-> cache, raised |-> deleted.raised]
       ELSE [env |-> Update(deleted.env, current_env), cache |-> "reset",
             raised |-> None]

\* The orders in which a dict's keys may come.
KeyOrders(kw) ==
    { o \in SeqsUpTo(DOMAIN kw, Cardinality(DOMAIN kw), Cardinality(DOMAIN kw)) :
        \A i, j \in 1..Len(o) : i # j => o[i] # o[j] }

\* with environ(**kw): current_env is taken and the keys are set.
EnvironEnter ==
    \E kw \in EnvDicts \ {EmptyDict} :
        /\ eCtx.pc = "outside"
        /\ eCtx.ended = << >>
        /\ eCtx' = [pc |-> "block", kw |-> kw, current_env |-> eEnv,
                    steps |-> 0, ended |-> << >>]
        /\ eEnv' = Update(eEnv, kw)
        /\ UNCHANGED <<eCache, component, actionVars, metricVars, keyVars,
                       logVars, labelVars, handlerVars>>

\* The block sets a variable of the environment it was yielded.
EnvironBlockSet ==
    \E k \in EnvKeys, v \in EnvValues :
        /\ eCtx.pc = "block"
        /\ eCtx.steps < MaxBlockSteps
        /\ eEnv' = SetItem(eEnv, k, v)
        /\ eCtx' = [eCtx EXCEPT !.steps = @ + 1]
        /\ UNCHANGED <<eCache, component, actionVars, metricVars, keyVars,
                       logVars, labelVars, handlerVars>>

\* The block unsets a variable of the environment it was yielded.
EnvironBlockDel ==
    \E k \in DOMAIN eEnv :
        /\ eCtx.pc = "block"
        /\ eCtx.steps < MaxBlockSteps
        /\ eEnv' = [x \in DOMAIN eEnv \ {k} |-> eEnv[x]]
        /\ eCtx' = [eCtx EXCEPT !.steps = @ + 1]
        /\ UNCHANGED <<eCache, component, actionVars, metricVars, keyVars,
                       logVars, labelVars, handlerVars>>

\* The block ends, normally or by an exception, and the finally clause
\* runs; the with statement ends with the error of the clause, else with
\* the block's.
EnvironExit ==
    \E block \in {None, Some("BlockError")}, keys \in KeyOrders(eCtx.kw) :
        LET done == EnvironFinally(eEnv, keys, eCtx.current_env, eCache)
        IN /\ eCtx.pc = "block"
           /\ eEnv' = done.env
           /\ eCache' = done.cache
           /\ eCtx' = [eCtx EXCEPT !.pc = "outside",
                         !.ended = Some([block |-> block,
                                         raised |-> IF done.raised # None
                                                    THEN done.raised
                                                    ELSE block])]
           /\ UNCHANGED <<component, actionVars, metricVars, keyVars,
                          logVars, labelVars, handlerVars>>

NextEnviron ==
    \/ EnvironEnter
    \/ EnvironBlockSet
    \/ EnvironBlockDel
    \/ EnvironExit

InitEnviron ==
    /\ component = "environ"
    /\ InitEnvVars
    /\ InitActionVars
    /\ IdleMetricVars
    /\ IdleKeyVars
    /\ IdleLogVars
    /\ IdleLabelVars
    /\ IdleHandlerVars

SpecEnviron == InitEnviron /\ [][NextEnviron]_vars

\* C33: after the with statement has ended, normally or by an exception,
\* every key passed to environ has the value it had before entry, or is
\* unset if it was unset then, and the session cache has been reset.
C33_EnvironRestored ==
    (eCtx # << >> /\ eCtx.ended # << >>)
    => /\ \A k \in DOMAIN eCtx.kw :
            IF k \in DOMAIN eCtx.current_env
            THEN k \in DOMAIN eEnv /\ eEnv[k] = eCtx.current_env[k]
            ELSE k \notin DOMAIN eEnv
       /\ eCache = "reset"

====
